---- MODULE Spec2Model ----
(***************************************************************************)
(* Verity backend (backend/src): the relational store, the tenancy and     *)
(* authorization pipeline of auth.py, and the request handlers of          *)
(* api/main.py, as a state machine.  One action per HTTP handler; the two  *)
(* artifact handlers are also split at their database and object-store     *)
(* calls so that concurrent requests interleave.                           *)
(***************************************************************************)
EXTENDS Integers, Sequences, FiniteSets, Bags, TLC

\* ------------------------------------------------------------------------
\* Bounds of the model
\* ------------------------------------------------------------------------
MaxOrgs == 2
MaxStudies == 1
MaxInterviews == 2
MaxTime == 9
MaxRequests == 3
NumWorkers == 2

\* ------------------------------------------------------------------------
\* Values
\* ------------------------------------------------------------------------
\* SQL NULL / Python None for string columns, and for timestamp/id columns
NULL == "NULL"
NULL_TS == 0

\* A reusable-link interview expires this many days after its creation
ExpiryDays == 7

\* The clock advances in steps of TickDays days
TickDays == ExpiryDays + 1

\* uuid4 values are drawn from this space
Tokens == {<<"uuid", n>> : n \in 1..(MaxInterviews + 1)}

\* pid query parameters of the reusable link (NULL: no pid given)
Pids == {NULL, "prolific_abc123"}

OrgNames == {"acme", "beta"}
OrgUids == {"u1", "u2"}
IntervieweeUids == {"p1", "p2"}

\* Bearer credentials a request can carry (HTTPBearer(auto_error=False)):
\* none, a token that fails verification, a verified token without a tenant
\* claim, the super admin, organization users and interviewees.
Anonymous == [kind |-> "absent", uid |-> NULL, tenant |-> NULL, role |-> NULL]
BadToken == [kind |-> "invalid", uid |-> "u1", tenant |-> "organization", role |-> NULL]
NoTenantToken == [kind |-> "valid", uid |-> "x0", tenant |-> NULL, role |-> NULL]
SuperAdmin ==
    [kind |-> "valid", uid |-> "sa", tenant |-> "organization", role |-> "super_admin"]
OrgToken(u) == [kind |-> "valid", uid |-> u, tenant |-> "organization", role |-> NULL]
IntervieweeToken(u) == [kind |-> "valid", uid |-> u, tenant |-> "interviewee", role |-> NULL]
Credentials ==
    {Anonymous, BadToken, NoTenantToken, SuperAdmin}
    \cup {OrgToken(u) : u \in OrgUids} \cup {IntervieweeToken(u) : u \in IntervieweeUids}

\* InterviewCompleteRequest bodies (transcript_url is required)
CompletionData ==
    { [transcript_url |-> "t1", recording_url |-> NULL, notes |-> NULL],
      [transcript_url |-> "t2", recording_url |-> "r2", notes |-> "n2"] }

GuideContents == {"G1", "G2"}

\* Multipart uploads: file name, the part's content type, the mime form field
\* and the number of bytes
Uploads ==
    { [filename |-> "a.wav", content_type |-> "audio/wav", mime |-> NULL, size |-> 3,
       sample_rate_hz |-> 16000, duration_ms |-> 1000],
      [filename |-> "dir/a.wav", content_type |-> NULL, mime |-> "audio/mpeg", size |-> 5,
       sample_rate_hz |-> 0, duration_ms |-> 0],
      [filename |-> NULL, content_type |-> "text/plain", mime |-> NULL, size |-> 7,
       sample_rate_hz |-> 0, duration_ms |-> 0] }

\* Transcript segment texts are strings, as sequences of characters
Segment(start_ms, end_ms, text) == [start_ms |-> start_ms, end_ms |-> end_ms, text |-> text]
SegA == Segment(0, 10, <<"a">>)
SegB == Segment(10, 20, <<"b", "c">>)
SegmentLists == {<<>>, <<SegA>>, <<SegB, SegA>>}

\* Request workers that serve the artifact endpoints concurrently
Workers == 1..NumWorkers
Idle == [pc |-> "idle"]

VARIABLES
    organizations,   \* table organizations: sequence, id = index
    users,           \* table users: set of rows
    studies,         \* table studies: set of rows
    study_seq,       \* last id handed out by studies.id
    guides,          \* table interview_guides: set of rows
    interviews,      \* table interviews: sequence, id = index
    recordings,      \* table audio_recordings: set of rows
    transcripts,     \* table transcripts with their segments: set of rows
    objects,         \* the object store: set of [name, data, content_type]
    now,             \* wall clock, in days
    resp,            \* the response of the last finished request
    workers,         \* artifact requests in flight
    log              \* the answered artifact requests: a bag of [op, interview_id, status]

db == <<organizations, users, studies, study_seq, guides, interviews,
        recordings, transcripts>>
vars == <<organizations, users, studies, study_seq, guides, interviews,
          recordings, transcripts, objects, now, resp, workers, log>>

\* ------------------------------------------------------------------------
\* Responses
\* ------------------------------------------------------------------------
HTTPException(status, detail) == [ok |-> FALSE, status |-> status, detail |-> detail]
Return(value) == [ok |-> TRUE, value |-> value]

NoBody == [empty |-> TRUE]
Response(op, status, detail, body) ==
    [op |-> op, status |-> status, detail |-> detail, body |-> body]
Raise(op, exc) == Response(op, exc.status, exc.detail, NoBody)

\* The answer to an exception no handler catches
InternalServerError == HTTPException(500, "Internal Server Error")

\* ------------------------------------------------------------------------
\* auth.py
\* ------------------------------------------------------------------------
verify_firebase_token(cred) ==
    IF cred.kind = "valid" THEN Return(cred)
    ELSE HTTPException(401, "Invalid token")

\* get_current_user without the check of the tenant claim
get_current_user_AnyTenant(cred) ==
    IF cred.kind = "absent" THEN HTTPException(401, "Authentication required")
    ELSE LET token_data == verify_firebase_token(cred) IN
         IF ~token_data.ok THEN token_data
         ELSE Return([firebase_uid |-> token_data.value.uid,
                      tenant_type |-> token_data.value.tenant,
                      is_super_admin |-> token_data.value.role = "super_admin"])

get_current_user(cred) ==
    IF cred.kind = "absent" THEN HTTPException(401, "Authentication required")
    ELSE LET token_data == verify_firebase_token(cred) IN
         IF ~token_data.ok THEN token_data
         ELSE IF token_data.value.tenant = NULL THEN HTTPException(401, "Invalid tenant")
         ELSE Return([firebase_uid |-> token_data.value.uid,
                      tenant_type |-> token_data.value.tenant,
                      is_super_admin |-> token_data.value.role = "super_admin"])

require_super_admin(cred) ==
    LET user == get_current_user(cred) IN
    IF ~user.ok THEN user
    ELSE IF ~user.value.is_super_admin THEN HTTPException(403, "Super admin access required")
    ELSE user

require_organization_user(cred) ==
    LET user == get_current_user(cred) IN
    IF ~user.ok THEN user
    ELSE IF user.value.tenant_type # "organization"
         THEN HTTPException(403, "Organization user access required")
    ELSE user

require_interviewee_user(cred) ==
    LET user == get_current_user(cred) IN
    IF ~user.ok THEN user
    ELSE IF user.value.tenant_type # "interviewee"
         THEN HTTPException(403, "Interviewee user access required")
    ELSE user

\* db.query(Organization).first() has no ORDER BY and no deleted_at filter:
\* any row of the table may come back (0 stands for "no row").
FirstOrganization ==
    IF Len(organizations) = 0 THEN {0} ELSE 1..Len(organizations)

\* The rows the query can return to a request with these credentials; the
\* query is made for the super admin only
QueriedOrganization(cred) ==
    IF cred.role = "super_admin" THEN FirstOrganization
    ELSE {CHOOSE first_org \in FirstOrganization : TRUE}

\* db.query(User).filter(User.firebase_uid == user.firebase_uid)
UserByFirebaseUid_Any(firebase_uid) == users
UserByFirebaseUid(firebase_uid) == {u \in users : u.firebase_uid = firebase_uid}

get_org_user_impl(user, first_org) ==
    IF user.is_super_admin
    THEN IF first_org # 0
         THEN Return([firebase_uid |-> user.firebase_uid, role |-> "super_admin",
                      organization_id |-> first_org])
         ELSE HTTPException(404, "No organizations exist")
    ELSE LET rows == UserByFirebaseUid(user.firebase_uid) IN
         IF rows = {}
         THEN HTTPException(403, "User not associated with any organization")
         ELSE LET db_user == CHOOSE u \in rows : TRUE IN
              Return([firebase_uid |-> db_user.firebase_uid, role |-> db_user.role,
                      organization_id |-> db_user.organization_id])

get_org_user(cred, first_org) ==
    LET user == require_organization_user(cred) IN
    IF ~user.ok THEN user ELSE get_org_user_impl(user.value, first_org)

require_owner_or_admin_AnyRole(cred, first_org) == get_org_user(cred, first_org)
require_owner_or_admin(cred, first_org) ==
    LET org_user == get_org_user(cred, first_org) IN
    IF ~org_user.ok THEN org_user
    ELSE IF org_user.value.role \notin {"owner", "admin", "super_admin"}
         THEN HTTPException(403, "Owner or admin role required")
    ELSE org_user

\* ------------------------------------------------------------------------
\* Queries
\* ------------------------------------------------------------------------
\* db.query(Study).filter(Study.id == study_id,
\*                        Study.organization_id == org_user.organization_id)
OwnedStudy_AnyOrganization(study_id, organization_id) ==
    {s \in studies : s.id = study_id}
OwnedStudy(study_id, organization_id) ==
    {s \in studies : s.id = study_id /\ s.organization_id = organization_id}

\* db.query(Interview).filter(Interview.access_token == access_token)
InterviewByToken(access_token) ==
    {i \in DOMAIN interviews : interviews[i].access_token = access_token}

\* str(uuid.uuid4()): a token no interview has yet
uuid4_Reused == CHOOSE t \in Tokens : TRUE
uuid4 == CHOOSE t \in Tokens : InterviewByToken(t) = {}

InterviewResponse(i) ==
    [interview_id |-> i,
     study_id |-> interviews[i].study_id,
     access_token |-> interviews[i].access_token,
     interviewee_firebase_uid |-> interviews[i].interviewee_firebase_uid,
     status |-> interviews[i].status,
     completed_at |-> interviews[i].completed_at,
     transcript_url |-> interviews[i].transcript_url,
     recording_url |-> interviews[i].recording_url,
     notes |-> interviews[i].notes]

NewInterview(study_id, access_token, pid, platform, expires_at) ==
    [study_id |-> study_id, access_token |-> access_token,
     interviewee_firebase_uid |-> NULL, status |-> "pending",
     completed_at |-> NULL_TS, expires_at |-> expires_at,
     external_participant_id |-> pid, platform_source |-> platform,
     transcript_url |-> NULL, recording_url |-> NULL, notes |-> NULL]

\* ------------------------------------------------------------------------
\* Initial state: the schema is created, every table is empty
\* ------------------------------------------------------------------------
Init ==
    /\ organizations = <<>>
    /\ users = {}
    /\ studies = {}
    /\ study_seq = 0
    /\ guides = {}
    /\ interviews = <<>>
    /\ recordings = {}
    /\ transcripts = {}
    /\ objects = {}
    /\ now = 1
    /\ resp = Response("none", 0, NULL, NoBody)
    /\ workers = [w \in Workers |-> Idle]
    /\ log = EmptyBag

\* The clock advances; expires_at is only ever compared with it
AdvanceClock ==
    /\ now' = now + TickDays
    /\ UNCHANGED <<db, objects, resp, workers, log>>

\* ------------------------------------------------------------------------
\* POST /orgs
\* ------------------------------------------------------------------------
\* owner_uid is the uid the identity provider gives the new owner, or NULL
\* when one of create_user / set_custom_user_claims /
\* generate_password_reset_link raises; the User insert raises when the uid
\* has a row already (users.firebase_uid is unique).
create_organization(cred, name, owner_uid) ==
    LET admin == require_super_admin(cred) IN
    IF ~admin.ok
    THEN /\ resp' = Raise("create_organization", admin)
         /\ UNCHANGED <<db, objects, now, workers, log>>
    ELSE IF \E o \in DOMAIN organizations : organizations[o].name = name
    THEN \* IntegrityError on organizations.name, rolled back
         /\ resp' = Raise("create_organization",
                          HTTPException(400, "Organization already exists"))
         /\ UNCHANGED <<db, objects, now, workers, log>>
    ELSE \* db.add(org); db.commit(): the organization row is committed here
         /\ organizations' = Append(organizations, [name |-> name, deleted_at |-> NULL_TS])
         /\ IF owner_uid = NULL \/ \E u \in users : u.firebase_uid = owner_uid
            THEN \* except Exception: db.rollback() has nothing left to undo
                 /\ users' = users
                 /\ resp' = Raise("create_organization",
                                  HTTPException(400, "Failed to create owner"))
            ELSE /\ users' = users \cup {[firebase_uid |-> owner_uid, role |-> "owner",
                                          organization_id |-> Len(organizations) + 1]}
                 /\ resp' = Response("create_organization", 201, NULL,
                                     [org_id |-> Len(organizations) + 1, name |-> name,
                                      owner |-> [role |-> "owner"]])
         /\ UNCHANGED <<studies, study_seq, guides, interviews, recordings, transcripts,
                        objects, now, workers, log>>

\* db.query(Organization).filter(Organization.id == org_id,
\*                               Organization.deleted_at.is_(None))
ActiveOrganization(org_id) ==
    org_id \in DOMAIN organizations /\ organizations[org_id].deleted_at = NULL_TS

\* GET /orgs
list_organizations(cred) ==
    LET admin == require_super_admin(cred) IN
    /\ resp' = IF ~admin.ok THEN Raise("list_organizations", admin)
               ELSE Response("list_organizations", 200, NULL,
                        {[org_id |-> o, name |-> organizations[o].name] : o \in
                            {x \in DOMAIN organizations : ActiveOrganization(x)}})
    /\ UNCHANGED <<db, objects, now, workers, log>>

\* GET /orgs/{org_id}
get_organization_by_id(cred, org_id) ==
    LET current_user == get_current_user(cred) IN
    /\ resp' =
         IF ~current_user.ok THEN Raise("get_organization_by_id", current_user)
         ELSE IF ~ActiveOrganization(org_id)
         THEN Raise("get_organization_by_id",
                    HTTPException(404, "Organization not found"))
         ELSE IF current_user.value.is_super_admin
         THEN Response("get_organization_by_id", 200, NULL,
                       [org_id |-> org_id, name |-> organizations[org_id].name])
         ELSE IF \A u \in UserByFirebaseUid(current_user.value.firebase_uid) :
                     u.organization_id # org_id
         THEN Raise("get_organization_by_id",
                    HTTPException(403,
                        "You don't have permission to access this organization"))
         ELSE Response("get_organization_by_id", 200, NULL,
                       [org_id |-> org_id, name |-> organizations[org_id].name])
    /\ UNCHANGED <<db, objects, now, workers, log>>

\* DELETE /orgs/{org_id}
delete_organization(cred, org_id) ==
    LET admin == require_super_admin(cred) IN
    IF ~admin.ok
    THEN /\ resp' = Raise("delete_organization", admin)
         /\ UNCHANGED <<db, objects, now, workers, log>>
    ELSE IF ~ActiveOrganization(org_id)
    THEN /\ resp' = Raise("delete_organization",
                          HTTPException(404, "Organization not found"))
         /\ UNCHANGED <<db, objects, now, workers, log>>
    ELSE /\ organizations' = [organizations EXCEPT ![org_id].deleted_at = now]
         /\ resp' = Response("delete_organization", 204, NULL, NoBody)
         /\ UNCHANGED <<users, studies, study_seq, guides, interviews, recordings,
                        transcripts, objects, now, workers, log>>

\* GET /orgs/current/users
UserResponse(user) == [user_id |-> user.firebase_uid, role |-> user.role]

list_organization_users(cred, first_org) ==
    LET org_user == require_owner_or_admin(cred, first_org) IN
    /\ resp' = IF ~org_user.ok THEN Raise("list_organization_users", org_user)
               ELSE Response("list_organization_users", 200, NULL,
                        [items |-> {UserResponse(u) : u \in
                            {x \in users :
                                x.organization_id = org_user.value.organization_id}}])
    /\ UNCHANGED <<db, objects, now, workers, log>>

\* POST /orgs/{org_id}/users
\* user_uid is the uid the identity provider gives the new user, or NULL when
\* the identity provider or the User insert raises; a person has one email
\* and one uid, so the lookup by email is a lookup by uid.
create_organization_user(cred, org_id, role, user_uid) ==
    LET admin == require_super_admin(cred) IN
    IF ~admin.ok
    THEN /\ resp' = Raise("create_organization_user", admin)
         /\ UNCHANGED <<db, objects, now, workers, log>>
    ELSE IF ~ActiveOrganization(org_id)
    THEN /\ resp' = Raise("create_organization_user",
                          HTTPException(404, "Organization not found"))
         /\ UNCHANGED <<db, objects, now, workers, log>>
    ELSE IF role \notin {"admin", "member"}
    THEN /\ resp' = Raise("create_organization_user", HTTPException(400, "Invalid role"))
         /\ UNCHANGED <<db, objects, now, workers, log>>
    ELSE IF \E u \in users : u.firebase_uid = user_uid
    THEN /\ resp' = Raise("create_organization_user",
                          HTTPException(400, "User already exists"))
         /\ UNCHANGED <<db, objects, now, workers, log>>
    ELSE IF user_uid = NULL
    THEN /\ resp' = Raise("create_organization_user",
                          HTTPException(400, "Failed to create user"))
         /\ UNCHANGED <<db, objects, now, workers, log>>
    ELSE /\ users' = users \cup {[firebase_uid |-> user_uid, role |-> role,
                                  organization_id |-> org_id]}
         /\ resp' = Response("create_organization_user", 201, NULL,
                             [user_id |-> user_uid, role |-> role])
         /\ UNCHANGED <<organizations, studies, study_seq, guides, interviews,
                        recordings, transcripts, objects, now, workers, log>>

\* ------------------------------------------------------------------------
\* Study endpoints
\* ------------------------------------------------------------------------
StudyResponse(study) ==
    [study_id |-> study.id, title |-> study.title, description |-> study.description,
     org_id |-> study.organization_id]

\* POST /studies
\* The handler gives the row a title, a description and the caller's
\* organization; the columns it leaves out (slug, participant_identity_flow)
\* are not part of the model.
create_study(cred, first_org, study_data) ==
    LET org_user == get_org_user(cred, first_org) IN
    IF ~org_user.ok
    THEN /\ resp' = Raise("create_study", org_user)
         /\ UNCHANGED <<db, objects, now, workers, log>>
    ELSE LET study == [id |-> study_seq + 1,
                       organization_id |-> org_user.value.organization_id,
                       title |-> study_data.title,
                       description |-> study_data.description] IN
         /\ studies' = studies \cup {study}
         /\ study_seq' = study_seq + 1
         /\ resp' = Response("create_study", 201, NULL, StudyResponse(study))
         /\ UNCHANGED <<organizations, users, guides, interviews, recordings, transcripts,
                        objects, now, workers, log>>

\* GET /studies
list_studies(cred, first_org) ==
    LET org_user == get_org_user(cred, first_org) IN
    /\ resp' = IF ~org_user.ok THEN Raise("list_studies", org_user)
               ELSE Response("list_studies", 200, NULL,
                        [items |-> {StudyResponse(s) : s \in
                            {x \in studies :
                                x.organization_id = org_user.value.organization_id}}])
    /\ UNCHANGED <<db, objects, now, workers, log>>

\* GET /studies/{study_id}
get_study(cred, first_org, study_id) ==
    LET org_user == get_org_user(cred, first_org) IN
    /\ resp' = IF ~org_user.ok THEN Raise("get_study", org_user)
               ELSE LET rows == OwnedStudy(study_id, org_user.value.organization_id) IN
                    IF rows = {}
                    THEN Raise("get_study", HTTPException(404, "Study not found"))
                    ELSE Response("get_study", 200, NULL,
                                  StudyResponse(CHOOSE s \in rows : TRUE))
    /\ UNCHANGED <<db, objects, now, workers, log>>

\* PATCH /studies/{study_id}
update_study(cred, first_org, study_id, study_update) ==
    LET org_user == get_org_user(cred, first_org) IN
    IF ~org_user.ok
    THEN /\ resp' = Raise("update_study", org_user)
         /\ UNCHANGED <<db, objects, now, workers, log>>
    ELSE LET rows == OwnedStudy(study_id, org_user.value.organization_id) IN
         IF rows = {}
         THEN /\ resp' = Raise("update_study", HTTPException(404, "Study not found"))
              /\ UNCHANGED <<db, objects, now, workers, log>>
         ELSE LET study == CHOOSE s \in rows : TRUE
                  updated == [study EXCEPT
                      !.title = IF study_update.title # NULL
                                THEN study_update.title ELSE @,
                      !.description = IF study_update.description # NULL
                                      THEN study_update.description ELSE @] IN
              /\ studies' = (studies \ {study}) \cup {updated}
              /\ resp' = Response("update_study", 200, NULL, StudyResponse(updated))
              /\ UNCHANGED <<organizations, users, study_seq, guides, interviews,
                             recordings, transcripts, objects, now, workers, log>>

\* DELETE /studies/{study_id}
\* Study.interview_guide and Study.interviews carry no delete cascade: the
\* unit of work sets the children's study_id to NULL, which both columns
\* forbid (nullable=False), so the commit raises and nothing is deleted.
StudyHasChildren_Ignored(study_id) == FALSE
StudyHasChildren(study_id) ==
    \/ \E g \in guides : g.study_id = study_id
    \/ \E i \in DOMAIN interviews : interviews[i].study_id = study_id

delete_study(cred, first_org, study_id) ==
    LET org_user == get_org_user(cred, first_org) IN
    IF ~org_user.ok
    THEN /\ resp' = Raise("delete_study", org_user)
         /\ UNCHANGED <<db, objects, now, workers, log>>
    ELSE LET rows == OwnedStudy(study_id, org_user.value.organization_id) IN
         IF rows = {}
         THEN /\ resp' = Raise("delete_study", HTTPException(404, "Study not found"))
              /\ UNCHANGED <<db, objects, now, workers, log>>
         ELSE IF StudyHasChildren(study_id)
         THEN /\ resp' = Raise("delete_study",
                               HTTPException(500, "Internal Server Error"))
              /\ UNCHANGED <<db, objects, now, workers, log>>
         ELSE /\ studies' = studies \ rows
              /\ resp' = Response("delete_study", 200, NULL,
                                  [message |-> "Study deleted successfully"])
              /\ UNCHANGED <<organizations, users, study_seq, guides, interviews,
                             recordings, transcripts, objects, now, workers, log>>

\* ------------------------------------------------------------------------
\* Study guide endpoints
\* ------------------------------------------------------------------------
InterviewGuideResponse(guide) ==
    [study_id |-> guide.study_id, content_md |-> guide.content_md]

\* PUT /studies/{study_id}/guide
upsert_study_guide(cred, first_org, study_id, content_md) ==
    LET org_user == get_org_user(cred, first_org) IN
    IF ~org_user.ok
    THEN /\ resp' = Raise("upsert_study_guide", org_user)
         /\ UNCHANGED <<db, objects, now, workers, log>>
    ELSE IF OwnedStudy(study_id, org_user.value.organization_id) = {}
    THEN /\ resp' = Raise("upsert_study_guide", HTTPException(404, "Study not found"))
         /\ UNCHANGED <<db, objects, now, workers, log>>
    ELSE LET existing_guide == {g \in guides : g.study_id = study_id}
             guide == [study_id |-> study_id, content_md |-> content_md] IN
         /\ guides' = (guides \ existing_guide) \cup {guide}
         /\ resp' = Response("upsert_study_guide", 200, NULL,
                             InterviewGuideResponse(guide))
         /\ UNCHANGED <<organizations, users, studies, study_seq, interviews,
                        recordings, transcripts, objects, now, workers, log>>

\* interview_guides.study_id is unique: the INSERT of a second guide for the
\* study raises IntegrityError at commit, which the handler does not catch
GuideInsertFails_NoConstraint(study_id) == FALSE
GuideInsertFails(study_id) == \E g \in guides : g.study_id = study_id

\* The same handler in two steps for a worker w.
\* Lines 599-609: the guard, the SELECT of the study and of the guide
upsert_study_guide_begin(w, cred, first_org, study_id, content_md) ==
    LET org_user == get_org_user(cred, first_org)
        failed == IF ~org_user.ok THEN org_user
                  ELSE IF OwnedStudy(study_id, org_user.value.organization_id) = {}
                  THEN HTTPException(404, "Study not found")
                  ELSE Return(study_id) IN
    /\ workers[w] = Idle
    /\ IF ~failed.ok
       THEN /\ resp' = Raise("upsert_study_guide", failed)
            /\ log' = log (+) SetToBag({[op |-> "upsert_study_guide",
                                         study_id |-> study_id, content_md |-> content_md,
                                         status |-> failed.status]})
            /\ workers' = workers
       ELSE /\ workers' = [workers EXCEPT ![w] =
                   [pc |-> "guide_checked", study_id |-> study_id,
                    content_md |-> content_md,
                    existing_guide |-> \E g \in guides : g.study_id = study_id]]
            /\ UNCHANGED <<resp, log>>
    /\ UNCHANGED <<db, objects, now>>

\* Lines 611-632: the UPDATE or the INSERT, the commit and the response
upsert_study_guide_commit(w) ==
    /\ workers[w].pc = "guide_checked"
    /\ LET guide == [study_id |-> workers[w].study_id,
                     content_md |-> workers[w].content_md]
           answered(status) == [op |-> "upsert_study_guide", study_id |-> guide.study_id,
                                content_md |-> guide.content_md, status |-> status] IN
       IF ~workers[w].existing_guide /\ GuideInsertFails(guide.study_id)
       THEN /\ guides' = guides
            /\ resp' = Raise("upsert_study_guide", InternalServerError)
            /\ log' = log (+) SetToBag({answered(500)})
       ELSE /\ guides' = IF workers[w].existing_guide
                          THEN {g \in guides : g.study_id # guide.study_id} \cup {guide}
                          ELSE guides \cup {guide}
            /\ resp' = Response("upsert_study_guide", 200, NULL,
                                InterviewGuideResponse(guide))
            /\ log' = log (+) SetToBag({answered(200)})
    /\ workers' = [workers EXCEPT ![w] = Idle]
    /\ UNCHANGED <<organizations, users, studies, study_seq, interviews,
                   recordings, transcripts, objects, now>>

\* GET /studies/{study_id}/guide
get_study_guide(cred, first_org, study_id) ==
    LET org_user == get_org_user(cred, first_org) IN
    /\ resp' = IF ~org_user.ok THEN Raise("get_study_guide", org_user)
               ELSE IF OwnedStudy(study_id, org_user.value.organization_id) = {}
               THEN Raise("get_study_guide", HTTPException(404, "Study not found"))
               ELSE LET rows == {g \in guides : g.study_id = study_id} IN
                    IF rows = {}
                    THEN Raise("get_study_guide",
                               HTTPException(404, "Interview guide not found"))
                    ELSE Response("get_study_guide", 200, NULL,
                                  InterviewGuideResponse(CHOOSE g \in rows : TRUE))
    /\ UNCHANGED <<db, objects, now, workers, log>>

\* ------------------------------------------------------------------------
\* Interview management endpoints (organization users)
\* ------------------------------------------------------------------------
\* POST /studies/{study_id}/interviews
generate_interview_link(cred, first_org, study_id) ==
    LET org_user == get_org_user(cred, first_org) IN
    IF ~org_user.ok
    THEN /\ resp' = Raise("generate_interview_link", org_user)
         /\ UNCHANGED <<db, objects, now, workers, log>>
    ELSE IF OwnedStudy(study_id, org_user.value.organization_id) = {}
    THEN /\ resp' = Raise("generate_interview_link",
                          HTTPException(404, "Study not found"))
         /\ UNCHANGED <<db, objects, now, workers, log>>
    ELSE LET access_token == uuid4 IN
         /\ interviews' = Append(interviews,
                NewInterview(study_id, access_token, NULL, NULL, NULL_TS))
         /\ resp' = Response("generate_interview_link", 201, NULL,
                [interview_id |-> Len(interviews) + 1, study_id |-> study_id,
                 access_token |-> access_token, interviewee_firebase_uid |-> NULL,
                 status |-> "pending", completed_at |-> NULL_TS,
                 transcript_url |-> NULL, recording_url |-> NULL, notes |-> NULL])
         /\ UNCHANGED <<organizations, users, studies, study_seq, guides,
                        recordings, transcripts, objects, now, workers, log>>

\* GET /studies/{study_id}/interviews
list_interviews(cred, first_org, study_id) ==
    LET org_user == get_org_user(cred, first_org) IN
    /\ resp' = IF ~org_user.ok THEN Raise("list_interviews", org_user)
               ELSE IF OwnedStudy(study_id, org_user.value.organization_id) = {}
               THEN Raise("list_interviews", HTTPException(404, "Study not found"))
               ELSE Response("list_interviews", 200, NULL,
                        [items |-> {InterviewResponse(i) : i \in
                            {x \in DOMAIN interviews : interviews[x].study_id = study_id}}])
    /\ UNCHANGED <<db, objects, now, workers, log>>

\* GET /studies/{study_id}/interviews/{interview_id}
get_interview(cred, first_org, study_id, interview_id) ==
    LET org_user == get_org_user(cred, first_org) IN
    /\ resp' = IF ~org_user.ok THEN Raise("get_interview", org_user)
               ELSE IF OwnedStudy(study_id, org_user.value.organization_id) = {}
               THEN Raise("get_interview", HTTPException(404, "Study not found"))
               ELSE IF ~(interview_id \in DOMAIN interviews
                         /\ interviews[interview_id].study_id = study_id)
               THEN Raise("get_interview", HTTPException(404, "Interview not found"))
               ELSE Response("get_interview", 200, NULL,
                             InterviewResponse(interview_id))
    /\ UNCHANGED <<db, objects, now, workers, log>>

\* ------------------------------------------------------------------------
\* Public interview endpoints (no authentication)
\* ------------------------------------------------------------------------
\* GET /interview/{access_token}
get_interview_public(access_token) ==
    LET rows == InterviewByToken(access_token) IN
    /\ resp' = IF rows = {} \/ interviews[CHOOSE i \in rows : TRUE].status = "completed"
               THEN Raise("get_interview_public",
                          HTTPException(404, "Interview not found or already completed"))
               ELSE LET i == CHOOSE x \in rows : TRUE
                        study == {s \in studies : s.id = interviews[i].study_id}
                        guide == {g \in guides : g.study_id = interviews[i].study_id} IN
                    IF study = {}
                    THEN Raise("get_interview_public",
                               HTTPException(404, "Study not found"))
                    ELSE Response("get_interview_public", 200, NULL,
                            [interview |-> [interview_id |-> i,
                                            study_id |-> interviews[i].study_id,
                                            access_token |-> interviews[i].access_token,
                                            status |-> interviews[i].status],
                             study |-> [title |-> (CHOOSE s \in study : TRUE).title,
                                        interview_guide |-> [content_md |->
                                            IF guide = {} THEN "No guide available"
                                            ELSE (CHOOSE g \in guide : TRUE).content_md]]])
    /\ UNCHANGED <<db, objects, now, workers, log>>

\* POST /interview/{access_token}/complete
\* if interview.status == "completed"
InterviewAlreadyCompleted_Never(i) == FALSE
InterviewAlreadyCompleted(i) == interviews[i].status = "completed"

\* The assignments of the completion data to the row
CompletedRow_NoStamp(row, completion_data) ==
    [row EXCEPT !.status = "completed",
                !.transcript_url = completion_data.transcript_url,
                !.recording_url = completion_data.recording_url,
                !.notes = completion_data.notes]
CompletedRow(row, completion_data) ==
    [row EXCEPT !.status = "completed",
                !.completed_at = now,
                !.transcript_url = completion_data.transcript_url,
                !.recording_url = completion_data.recording_url,
                !.notes = completion_data.notes]

complete_interview(access_token, completion_data) ==
    LET rows == InterviewByToken(access_token) IN
    IF rows = {}
    THEN /\ resp' = Raise("complete_interview",
                          HTTPException(404, "Interview not found"))
         /\ UNCHANGED <<db, objects, now, workers, log>>
    ELSE LET i == CHOOSE x \in rows : TRUE IN
         IF InterviewAlreadyCompleted(i)
         THEN /\ resp' = Raise("complete_interview",
                               HTTPException(400, "Interview already completed"))
              /\ UNCHANGED <<db, objects, now, workers, log>>
         ELSE /\ interviews' = [interviews EXCEPT
                     ![i] = CompletedRow(interviews[i], completion_data)]
              /\ resp' = Response("complete_interview", 200, NULL,
                                  [message |-> "Interview completed successfully"])
              /\ UNCHANGED <<organizations, users, studies, study_seq, guides,
                             recordings, transcripts, objects, now, workers, log>>

\* POST /interview/{access_token}/claim
\* if interview.interviewee_firebase_uid is not None
InterviewAlreadyClaimed_OrCompleted(i) ==
    interviews[i].interviewee_firebase_uid # NULL \/ interviews[i].status = "completed"
InterviewAlreadyClaimed_Never(i) == FALSE
InterviewAlreadyClaimed(i) == interviews[i].interviewee_firebase_uid # NULL

claim_interview(cred, access_token) ==
    LET current_user == require_interviewee_user(cred)
        rows == InterviewByToken(access_token) IN
    IF ~current_user.ok
    THEN /\ resp' = Raise("claim_interview", current_user)
         /\ UNCHANGED <<db, objects, now, workers, log>>
    ELSE IF rows = {}
    THEN /\ resp' = Raise("claim_interview", HTTPException(404, "Interview not found"))
         /\ UNCHANGED <<db, objects, now, workers, log>>
    ELSE LET i == CHOOSE x \in rows : TRUE IN
         IF InterviewAlreadyClaimed(i)
         THEN /\ resp' = Raise("claim_interview",
                               HTTPException(400, "Interview already claimed"))
              /\ UNCHANGED <<db, objects, now, workers, log>>
         ELSE /\ interviews' = [interviews EXCEPT
                     ![i].interviewee_firebase_uid = current_user.value.firebase_uid]
              /\ resp' = Response("claim_interview", 200, NULL,
                                  [message |-> "Interview claimed successfully"])
              /\ UNCHANGED <<organizations, users, studies, study_seq, guides,
                             recordings, transcripts, objects, now, workers, log>>

\* The same two handlers as concurrent requests.  Each request has its own
\* database session: it reads the interview (the SELECT and the checks on
\* the row it loaded), and its db.commit() writes the columns it assigned to
\* the row with that id.
complete_interview_begin(w, access_token, completion_data) ==
    LET rows == InterviewByToken(access_token)
        failure == IF rows = {} THEN HTTPException(404, "Interview not found")
                   ELSE HTTPException(400, "Interview already completed") IN
    /\ workers[w] = Idle
    /\ IF rows = {} \/ \E i \in rows : InterviewAlreadyCompleted(i)
       THEN /\ resp' = Raise("complete_interview", failure)
            /\ log' = log (+) SetToBag({[op |-> "complete_interview",
                                         interview_id |-> IF rows = {} THEN NULL
                                                          ELSE CHOOSE i \in rows : TRUE,
                                         status |-> failure.status]})
            /\ workers' = workers
       ELSE /\ workers' = [workers EXCEPT ![w] =
                   [pc |-> "complete_checked",
                    interview_id |-> CHOOSE i \in rows : TRUE,
                    completion_data |-> completion_data]]
            /\ UNCHANGED <<resp, log>>
    /\ UNCHANGED <<db, objects, now>>

complete_interview_commit(w) ==
    /\ workers[w].pc = "complete_checked"
    /\ interviews' = [interviews EXCEPT ![workers[w].interview_id] =
           CompletedRow(interviews[workers[w].interview_id],
                        workers[w].completion_data)]
    /\ resp' = Response("complete_interview", 200, NULL,
                        [message |-> "Interview completed successfully"])
    /\ log' = log (+) SetToBag({[op |-> "complete_interview",
                                 interview_id |-> workers[w].interview_id,
                                 status |-> 200]})
    /\ workers' = [workers EXCEPT ![w] = Idle]
    /\ UNCHANGED <<organizations, users, studies, study_seq, guides, recordings,
                   transcripts, objects, now>>

claim_interview_begin(w, cred, access_token) ==
    LET current_user == require_interviewee_user(cred)
        rows == InterviewByToken(access_token)
        failure == IF ~current_user.ok THEN current_user
                   ELSE IF rows = {} THEN HTTPException(404, "Interview not found")
                   ELSE HTTPException(400, "Interview already claimed") IN
    /\ workers[w] = Idle
    /\ IF ~current_user.ok \/ rows = {} \/ \E i \in rows : InterviewAlreadyClaimed(i)
       THEN /\ resp' = Raise("claim_interview", failure)
            /\ log' = log (+) SetToBag({[op |-> "claim_interview",
                                         interview_id |-> IF rows = {} THEN NULL
                                                          ELSE CHOOSE i \in rows : TRUE,
                                         status |-> failure.status]})
            /\ workers' = workers
       ELSE /\ workers' = [workers EXCEPT ![w] =
                   [pc |-> "claim_checked",
                    interview_id |-> CHOOSE i \in rows : TRUE,
                    firebase_uid |-> current_user.value.firebase_uid]]
            /\ UNCHANGED <<resp, log>>
    /\ UNCHANGED <<db, objects, now>>

claim_interview_commit(w) ==
    /\ workers[w].pc = "claim_checked"
    /\ interviews' = [interviews EXCEPT
           ![workers[w].interview_id].interviewee_firebase_uid =
               workers[w].firebase_uid]
    /\ resp' = Response("claim_interview", 200, NULL,
                        [message |-> "Interview claimed successfully"])
    /\ log' = log (+) SetToBag({[op |-> "claim_interview",
                                 interview_id |-> workers[w].interview_id,
                                 status |-> 200]})
    /\ workers' = [workers EXCEPT ![w] = Idle]
    /\ UNCHANGED <<organizations, users, studies, study_seq, guides, recordings,
                   transcripts, objects, now>>

\* ------------------------------------------------------------------------
\* storage.py
\* ------------------------------------------------------------------------
\* Path(filename).name over the file names of Uploads
PathName(filename) ==
    IF filename = "dir/a.wav" THEN "a.wav" ELSE filename

generate_audio_object_name(interview_id, filename) ==
    [interview_id |-> interview_id, clean_filename |-> PathName(filename)]

\* MinIOClient.upload_file: put_object replaces the object of that name and
\* the URI names endpoint, bucket and object
ObjectUri(bucket, object_name) == [bucket |-> bucket, object_name |-> object_name]
put_object(bucket, object_name, content_type, file_size) ==
    {o \in objects : ~(o.bucket = bucket /\ o.object_name = object_name)}
    \cup {[bucket |-> bucket, object_name |-> object_name,
           content_type |-> content_type, length |-> file_size]}

\* MinIOClient.upload_file raises RuntimeError when put_object fails
UploadFileRaises_Never(store_ok) == FALSE
UploadFileRaises(store_ok) == ~store_ok

\* ------------------------------------------------------------------------
\* POST /recordings:upload
\* ------------------------------------------------------------------------
\* detected_mime.startswith("audio/") over the mime types of Uploads
IsAudioMime_Any(mime) == TRUE
IsAudioMime(mime) == mime \in {"audio/wav", "audio/mpeg"}

\* mime or file.content_type
DetectedMime(upload) == IF upload.mime # NULL THEN upload.mime ELSE upload.content_type

UploadObjectName(interview_id, upload) ==
    generate_audio_object_name(interview_id,
        IF upload.filename # NULL THEN upload.filename ELSE "recording.wav")

\* The checks made before the storage client is used
upload_recording_checks(interview_id, upload) ==
    IF interview_id \notin DOMAIN interviews
    THEN HTTPException(404, "Interview not found")
    ELSE IF \E r \in recordings : r.interview_id = interview_id
    THEN HTTPException(400, "Recording already exists for this interview")
    ELSE IF DetectedMime(upload) # NULL /\ ~IsAudioMime(DetectedMime(upload))
    THEN HTTPException(400, "File must be an audio file")
    ELSE Return(interview_id)

AudioRecordingRow(interview_id, upload) ==
    [interview_id |-> interview_id,
     uri |-> ObjectUri("audio-recordings", UploadObjectName(interview_id, upload)),
     duration_ms |-> upload.duration_ms,
     mime_type |-> DetectedMime(upload),
     sample_rate_hz |-> upload.sample_rate_hz,
     file_size_bytes |-> upload.size]

\* audio_recordings.interview_id is unique: the INSERT of a second row for
\* the interview raises IntegrityError at commit
AudioRecordingInsertFails_NoConstraint(interview_id) == FALSE
AudioRecordingInsertFails(interview_id) ==
    \E r \in recordings : r.interview_id = interview_id

UploadFailed == HTTPException(500, "Failed to upload recording")

\* The handler run without interruption; store_ok tells whether
\* storage_client.upload_file returns or raises
upload_recording(interview_id, upload, store_ok) ==
    LET checked == upload_recording_checks(interview_id, upload) IN
    IF ~checked.ok
    THEN /\ resp' = Raise("upload_recording", checked)
         /\ UNCHANGED <<db, objects, now, workers, log>>
    ELSE IF UploadFileRaises(store_ok)
    THEN /\ resp' = Raise("upload_recording", UploadFailed)
         /\ UNCHANGED <<db, objects, now, workers, log>>
    ELSE LET row == AudioRecordingRow(interview_id, upload) IN
         /\ objects' = put_object("audio-recordings", row.uri.object_name,
                                  row.mime_type, row.file_size_bytes)
         /\ IF AudioRecordingInsertFails(interview_id)
            THEN /\ recordings' = recordings
                 /\ resp' = Raise("upload_recording", UploadFailed)
            ELSE /\ recordings' = recordings \cup {row}
                 /\ resp' = Response("upload_recording", 201, NULL, row)
         /\ UNCHANGED <<organizations, users, studies, study_seq, guides, interviews,
                        transcripts, now, workers, log>>

\* The same handler, one step per external call, for a worker w.
\* Lines 911-925: the two SELECTs and the mime check
upload_recording_begin(w, interview_id, upload) ==
    LET checked == upload_recording_checks(interview_id, upload) IN
    /\ workers[w] = Idle
    /\ IF ~checked.ok
       THEN /\ resp' = Raise("upload_recording", checked)
            /\ log' = log (+) SetToBag({[op |-> "upload_recording",
                                   interview_id |-> interview_id,
                                   status |-> checked.status]})
            /\ workers' = workers
       ELSE /\ workers' = [workers EXCEPT ![w] =
                   [pc |-> "upload_checked", interview_id |-> interview_id,
                    upload |-> upload]]
            /\ UNCHANGED <<resp, log>>
    /\ UNCHANGED <<db, objects, now>>

\* Lines 931-944: storage_client.upload_file
upload_recording_store(w, store_ok) ==
    /\ workers[w].pc = "upload_checked"
    /\ LET row == AudioRecordingRow(workers[w].interview_id, workers[w].upload) IN
       IF ~UploadFileRaises(store_ok)
       THEN /\ objects' = put_object("audio-recordings", row.uri.object_name,
                                     row.mime_type, row.file_size_bytes)
            /\ workers' = [workers EXCEPT ![w].pc = "upload_stored"]
            /\ UNCHANGED <<resp, log>>
       ELSE /\ objects' = objects
            /\ workers' = [workers EXCEPT ![w] = Idle]
            /\ resp' = Raise("upload_recording", UploadFailed)
            /\ log' = log (+) SetToBag({[op |-> "upload_recording",
                                         interview_id |-> workers[w].interview_id,
                                         status |-> 500]})
    /\ UNCHANGED <<db, now>>

\* Lines 946-973: db.add(audio_recording); db.commit(), or the rollback
upload_recording_commit(w) ==
    /\ workers[w].pc = "upload_stored"
    /\ LET row == AudioRecordingRow(workers[w].interview_id, workers[w].upload) IN
       IF AudioRecordingInsertFails(row.interview_id)
       THEN /\ recordings' = recordings
            /\ resp' = Raise("upload_recording", UploadFailed)
            /\ log' = log (+) SetToBag({[op |-> "upload_recording",
                                   interview_id |-> row.interview_id, status |-> 500]})
       ELSE /\ recordings' = recordings \cup {row}
            /\ resp' = Response("upload_recording", 201, NULL, row)
            /\ log' = log (+) SetToBag({[op |-> "upload_recording",
                                   interview_id |-> row.interview_id, status |-> 201]})
    /\ workers' = [workers EXCEPT ![w] = Idle]
    /\ UNCHANGED <<organizations, users, studies, study_seq, guides, interviews,
                   transcripts, objects, now>>

\* ------------------------------------------------------------------------
\* POST /interviews/{interview_id}/transcript:finalize
\* ------------------------------------------------------------------------
\* " ".join(segment.text for segment in segments)
RECURSIVE JoinSpace(_)
JoinSpace(segments) ==
    IF Len(segments) = 0 THEN <<>>
    ELSE IF Len(segments) = 1 THEN segments[1].text
    ELSE segments[1].text \o <<" ">> \o JoinSpace(Tail(segments))

\* for idx, segment_data in enumerate(request.segments)
SegmentRows_FromOne(segments) ==
    { [start_ms |-> segments[k].start_ms, end_ms |-> segments[k].end_ms,
       text |-> segments[k].text, sequence |-> k] : k \in DOMAIN segments }
SegmentRows(segments) ==
    { [start_ms |-> segments[k].start_ms, end_ms |-> segments[k].end_ms,
       text |-> segments[k].text, sequence |-> k - 1] : k \in DOMAIN segments }

TranscriptRow(interview_id, request) ==
    [interview_id |-> interview_id, language |-> request.lang, source |-> request.source,
     full_text |-> JoinSpace(request.segments), segments |-> SegmentRows(request.segments)]

\* The checks made before anything is written
finalize_transcript_checks(interview_id, request) ==
    IF Len(request.segments) = 0
    THEN HTTPException(400, "Request must contain at least one segment")
    ELSE IF interview_id \notin DOMAIN interviews
    THEN HTTPException(404, "Interview not found")
    ELSE IF \E t \in transcripts : t.interview_id = interview_id
    THEN HTTPException(400, "Transcript already exists for this interview")
    ELSE Return(interview_id)

\* transcripts.interview_id is unique: db.flush() raises IntegrityError for a
\* second row, which the handler does not catch
TranscriptInsertFails_NoConstraint(interview_id) == FALSE
TranscriptInsertFails(interview_id) ==
    \E t \in transcripts : t.interview_id = interview_id

TranscriptResponse(row) ==
    [interview_id |-> row.interview_id, language |-> row.language,
     full_text |-> row.full_text]

\* The handler run without interruption
finalize_transcript(interview_id, request) ==
    LET checked == finalize_transcript_checks(interview_id, request) IN
    IF ~checked.ok
    THEN /\ resp' = Raise("finalize_transcript", checked)
         /\ UNCHANGED <<db, objects, now, workers, log>>
    ELSE LET row == TranscriptRow(interview_id, request) IN
         /\ IF TranscriptInsertFails(interview_id)
            THEN /\ transcripts' = transcripts
                 /\ resp' = Raise("finalize_transcript", InternalServerError)
            ELSE /\ transcripts' = transcripts \cup {row}
                 /\ resp' = Response("finalize_transcript", 201, NULL,
                                     TranscriptResponse(row))
         /\ UNCHANGED <<organizations, users, studies, study_seq, guides, interviews,
                        recordings, objects, now, workers, log>>

\* The same handler in two steps for a worker w.
\* Lines 1045-1059: the segment check and the two SELECTs
finalize_transcript_begin(w, interview_id, request) ==
    LET checked == finalize_transcript_checks(interview_id, request) IN
    /\ workers[w] = Idle
    /\ IF ~checked.ok
       THEN /\ resp' = Raise("finalize_transcript", checked)
            /\ log' = log (+) SetToBag({[op |-> "finalize_transcript",
                                   interview_id |-> interview_id,
                                   status |-> checked.status]})
            /\ workers' = workers
       ELSE /\ workers' = [workers EXCEPT ![w] =
                   [pc |-> "finalize_checked", interview_id |-> interview_id,
                    request |-> request]]
            /\ UNCHANGED <<resp, log>>
    /\ UNCHANGED <<db, objects, now>>

\* Lines 1061-1094: the INSERTs (flush), the commit and the response
finalize_transcript_commit(w) ==
    /\ workers[w].pc = "finalize_checked"
    /\ LET row == TranscriptRow(workers[w].interview_id, workers[w].request) IN
       IF TranscriptInsertFails(row.interview_id)
       THEN /\ transcripts' = transcripts
            /\ resp' = Raise("finalize_transcript", InternalServerError)
            /\ log' = log (+) SetToBag({[op |-> "finalize_transcript",
                                   interview_id |-> row.interview_id, status |-> 500]})
       ELSE /\ transcripts' = transcripts \cup {row}
            /\ resp' = Response("finalize_transcript", 201, NULL, TranscriptResponse(row))
            /\ log' = log (+) SetToBag({[op |-> "finalize_transcript",
                                   interview_id |-> row.interview_id, status |-> 201]})
    /\ workers' = [workers EXCEPT ![w] = Idle]
    /\ UNCHANGED <<organizations, users, studies, study_seq, guides, interviews,
                   recordings, objects, now>>

\* ------------------------------------------------------------------------
\* GET /study/{slug}/start?pid=  (the reusable study link)
\* ------------------------------------------------------------------------
\* A study's slug is its permanent public name; the model names the study
\* with id n by the slug n.
StudyBySlug(slug) == {s \in studies : s.id = slug}

\* The interviews of a study that carry the external participant id
InterviewByPid_Never(study_id, pid) == {}
InterviewByPid(study_id, pid) ==
    {i \in DOMAIN interviews : /\ interviews[i].study_id = study_id
                               /\ interviews[i].external_participant_id = pid}

\* The interview found for the pid is finished: the link answers with the
\* "completed" outcome instead of a token
ExistingIsCompleted_Never(i) == FALSE
ExistingIsCompleted(i) == interviews[i].status = "completed"

start_interview(slug, pid) ==
    IF StudyBySlug(slug) = {}
    THEN /\ resp' = Raise("start_interview", HTTPException(404, "Study not found"))
         /\ UNCHANGED <<db, objects, now, workers, log>>
    ELSE LET study == CHOOSE s \in StudyBySlug(slug) : TRUE
             existing == IF pid = NULL THEN {} ELSE InterviewByPid(study.id, pid) IN
         IF existing # {}
         THEN LET i == CHOOSE x \in existing : \A y \in existing : x <= y IN
              /\ resp' = IF ExistingIsCompleted(i)
                         THEN Raise("start_interview",
                                    HTTPException(400, "Interview Already Completed"))
                         ELSE Response("start_interview", 302, NULL,
                                       [access_token |-> interviews[i].access_token])
              /\ UNCHANGED <<db, objects, now, workers, log>>
         ELSE LET access_token == uuid4 IN
              /\ interviews' = Append(interviews,
                    NewInterview(study.id, access_token, pid,
                                 IF pid = NULL THEN NULL ELSE "prolific",
                                 IF pid = NULL THEN NULL_TS ELSE now + ExpiryDays))
              /\ resp' = Response("start_interview", 302, NULL,
                                  [access_token |-> access_token])
              /\ UNCHANGED <<organizations, users, studies, study_seq, guides,
                             recordings, transcripts, objects, now, workers, log>>

\* The redemption as concurrent requests: the lookups of the study and of
\* the interview of the pid, then the INSERT of the interview that was not
\* found.  The interviews table has no constraint on (study_id,
\* external_participant_id), so the INSERT is never refused.
start_interview_begin(w, slug, pid) ==
    LET existing == IF pid = NULL \/ StudyBySlug(slug) = {} THEN {}
                    ELSE InterviewByPid(slug, pid) IN
    /\ workers[w] = Idle
    /\ IF StudyBySlug(slug) # {} /\ existing = {}
       THEN /\ workers' = [workers EXCEPT ![w] =
                   [pc |-> "start_checked", study_id |-> slug, pid |-> pid]]
            /\ UNCHANGED <<resp, log>>
       ELSE LET i == IF existing = {} THEN NULL
                     ELSE CHOOSE x \in existing : \A y \in existing : x <= y
                answer ==
                    IF existing = {}
                    THEN Raise("start_interview",
                               HTTPException(404, "Study not found"))
                    ELSE IF ExistingIsCompleted(i)
                    THEN Raise("start_interview",
                               HTTPException(400, "Interview Already Completed"))
                    ELSE Response("start_interview", 302, NULL,
                                  [access_token |-> interviews[i].access_token]) IN
            /\ resp' = answer
            /\ log' = log (+) SetToBag({[op |-> "start_interview",
                                         interview_id |-> i,
                                         status |-> answer.status]})
            /\ workers' = workers
    /\ UNCHANGED <<db, objects, now>>

start_interview_commit(w) ==
    /\ workers[w].pc = "start_checked"
    /\ LET access_token == uuid4
           pid == workers[w].pid IN
       /\ interviews' = Append(interviews,
              NewInterview(workers[w].study_id, access_token, pid,
                           IF pid = NULL THEN NULL ELSE "prolific",
                           IF pid = NULL THEN NULL_TS ELSE now + ExpiryDays))
       /\ resp' = Response("start_interview", 302, NULL,
                           [access_token |-> access_token])
       /\ log' = log (+) SetToBag({[op |-> "start_interview",
                                    interview_id |-> Len(interviews) + 1,
                                    status |-> 302]})
    /\ workers' = [workers EXCEPT ![w] = Idle]
    /\ UNCHANGED <<organizations, users, studies, study_seq, guides, recordings,
                   transcripts, objects, now>>

\* ------------------------------------------------------------------------
\* Request inputs
\* ------------------------------------------------------------------------
StudyIds == 1..(MaxStudies + 1)
InterviewIds == 1..(MaxInterviews + 1)
StudyCreates == {[title |-> "T1", description |-> NULL]}
StudyUpdates == {[title |-> "T2", description |-> NULL],
                 [title |-> NULL, description |-> "D2"]}

\* TranscriptFinalizeRequest bodies
TranscriptRequests ==
    {[lang |-> "en", source |-> "stt", segments |-> segments] : segments \in SegmentLists}

\* ------------------------------------------------------------------------
\* Spec: the interview lifecycle.  The super admin creates the organization
\* "acme" with its owner u1; u1 creates studies and generates links; the
\* public and interviewee endpoints act on the tokens.
\* ------------------------------------------------------------------------
Tick ==
    /\ now + TickDays <= MaxTime
    /\ AdvanceClock

CreateOrganization ==
    /\ create_organization(SuperAdmin, "acme", "u1")
    /\ Len(organizations') <= MaxOrgs

CreateStudy ==
    \E study_data \in StudyCreates, first_org \in QueriedOrganization(OrgToken("u1")) :
        /\ create_study(OrgToken("u1"), first_org, study_data)
        /\ study_seq' <= MaxStudies

GenerateInterviewLink ==
    \E study_id \in StudyIds, first_org \in QueriedOrganization(OrgToken("u1")) :
        /\ generate_interview_link(OrgToken("u1"), first_org, study_id)
        /\ Len(interviews') <= MaxInterviews

StartInterview ==
    \E slug \in StudyIds, pid \in Pids :
        /\ start_interview(slug, pid)
        /\ Len(interviews') <= MaxInterviews

GetInterviewPublic ==
    \E access_token \in Tokens : get_interview_public(access_token)

CompleteInterview ==
    \E access_token \in Tokens, completion_data \in CompletionData :
        complete_interview(access_token, completion_data)

ClaimInterview ==
    \E cred \in {IntervieweeToken(u) : u \in IntervieweeUids} \cup {OrgToken("u1")},
       access_token \in Tokens :
        claim_interview(cred, access_token)

Next ==
    \/ Tick
    \/ CreateOrganization
    \/ CreateStudy
    \/ GenerateInterviewLink
    \/ GetInterviewPublic
    \/ CompleteInterview

Spec == Init /\ [][Next]_vars

\* ------------------------------------------------------------------------
\* SpecClaim: the interviewees p1 and p2 and the organization user u1 claim
\* the links that were generated, before and after they are completed.
\* ------------------------------------------------------------------------
CompleteInterviewOps ==
    \E access_token \in Tokens :
        complete_interview(access_token,
            [transcript_url |-> "t1", recording_url |-> NULL, notes |-> NULL])

NextClaim ==
    \/ CreateOrganization
    \/ CreateStudy
    \/ GenerateInterviewLink
    \/ ClaimInterview
    \/ CompleteInterviewOps

SpecClaim == Init /\ [][NextClaim]_vars

\* ------------------------------------------------------------------------
\* SpecLink: the reusable study link.  Participants redeem the link of a
\* study with or without a pid, read and complete the interviews, and the
\* clock passes the expiry of the minted interviews.
\* ------------------------------------------------------------------------
NextLink ==
    \/ Tick
    \/ CreateOrganization
    \/ CreateStudy
    \/ StartInterview
    \/ GetInterviewPublic
    \/ CompleteInterviewOps

SpecLink == Init /\ [][NextLink]_vars

\* ------------------------------------------------------------------------
\* SpecOps: the interview lifecycle with the artifact endpoints.  Links are
\* generated, read, claimed by p1 and completed, and recordings and
\* transcripts are stored for the first interview or asked for an interview
\* that does not exist.
\* ------------------------------------------------------------------------
ArtifactInterviewIds == {1, MaxInterviews + 1}

ClaimInterviewOps ==
    \E access_token \in Tokens : claim_interview(IntervieweeToken("p1"), access_token)

UploadRecording ==
    \E interview_id \in ArtifactInterviewIds, store_ok \in BOOLEAN :
        upload_recording(interview_id,
            [filename |-> "a.wav", content_type |-> "audio/wav", mime |-> NULL,
             size |-> 3, sample_rate_hz |-> 16000, duration_ms |-> 1000], store_ok)

FinalizeTranscript ==
    \E interview_id \in ArtifactInterviewIds :
        finalize_transcript(interview_id,
            [lang |-> "en", source |-> "stt", segments |-> <<SegA, SegB>>])

NextOps ==
    \/ CreateOrganization
    \/ CreateStudy
    \/ GenerateInterviewLink
    \/ GetInterviewPublic
    \/ CompleteInterviewOps
    \/ ClaimInterviewOps
    \/ UploadRecording
    \/ FinalizeTranscript

SpecOps == Init /\ [][NextOps]_vars

\* SpecToken: the same operations, and the reusable study link as a second
\* source of interviews and tokens.
NextToken ==
    \/ NextOps
    \/ StartInterview

SpecToken == Init /\ [][NextToken]_vars

\* ------------------------------------------------------------------------
\* SpecStudy: the owner u1 retitles and deletes the first study and writes
\* its guide, while links are generated, read, claimed and completed and a
\* recording is stored.
\* ------------------------------------------------------------------------
EditedStudyIds == {1, MaxStudies + 1}

UpdateStudy ==
    \E study_id \in EditedStudyIds, first_org \in QueriedOrganization(OrgToken("u1")) :
        update_study(OrgToken("u1"), first_org, study_id,
                     [title |-> "T2", description |-> NULL])

DeleteStudy ==
    \E study_id \in EditedStudyIds, first_org \in QueriedOrganization(OrgToken("u1")) :
        delete_study(OrgToken("u1"), first_org, study_id)

UpsertStudyGuide ==
    \E study_id \in EditedStudyIds, first_org \in QueriedOrganization(OrgToken("u1")) :
        upsert_study_guide(OrgToken("u1"), first_org, study_id, "G1")

NextStudy ==
    \/ CreateOrganization
    \/ CreateStudy
    \/ UpdateStudy
    \/ DeleteStudy
    \/ UpsertStudyGuide
    \/ GenerateInterviewLink
    \/ GetInterviewPublic
    \/ CompleteInterviewOps
    \/ ClaimInterviewOps
    \/ UploadRecording

SpecStudy == Init /\ [][NextStudy]_vars

\* ------------------------------------------------------------------------
\* SpecAccess: two organizations.  The super admin creates "acme" with owner
\* u1 and "beta" with owner u2; both owners call every organization-scoped
\* study, guide and interview endpoint with the study and interview ids that
\* were handed out, their own and the other organization's.
\* ------------------------------------------------------------------------
Owners == {<<"acme", "u1">>, <<"beta", "u2">>}
OwnerTokens == {OrgToken(owner[2]) : owner \in Owners}
IssuedStudyIds == 1..MaxStudies
IssuedInterviewIds == 1..MaxInterviews

CreateOrganizations ==
    \E owner \in Owners :
        /\ create_organization(SuperAdmin, owner[1], owner[2])
        /\ Len(organizations') <= MaxOrgs

AccessCreateStudy ==
    \E cred \in OwnerTokens :
    \E study_data \in StudyCreates, first_org \in QueriedOrganization(cred) :
        /\ create_study(cred, first_org, study_data)
        /\ study_seq' <= MaxStudies

AccessGetStudy ==
    \E cred \in OwnerTokens :
    \E study_id \in IssuedStudyIds, first_org \in QueriedOrganization(cred) :
        get_study(cred, first_org, study_id)

AccessUpdateStudy ==
    \E cred \in OwnerTokens :
    \E study_id \in IssuedStudyIds, first_org \in QueriedOrganization(cred) :
        update_study(cred, first_org, study_id, [title |-> "T2", description |-> NULL])

AccessDeleteStudy ==
    \E cred \in OwnerTokens :
    \E study_id \in IssuedStudyIds, first_org \in QueriedOrganization(cred) :
        delete_study(cred, first_org, study_id)

AccessUpsertStudyGuide ==
    \E cred \in OwnerTokens :
    \E study_id \in IssuedStudyIds, first_org \in QueriedOrganization(cred) :
        upsert_study_guide(cred, first_org, study_id, "G1")

AccessGetStudyGuide ==
    \E cred \in OwnerTokens :
    \E study_id \in IssuedStudyIds, first_org \in QueriedOrganization(cred) :
        get_study_guide(cred, first_org, study_id)

AccessGenerateInterviewLink ==
    \E cred \in OwnerTokens :
    \E study_id \in IssuedStudyIds, first_org \in QueriedOrganization(cred) :
        /\ generate_interview_link(cred, first_org, study_id)
        /\ Len(interviews') <= MaxInterviews

AccessListInterviews ==
    \E cred \in OwnerTokens :
    \E study_id \in IssuedStudyIds, first_org \in QueriedOrganization(cred) :
        list_interviews(cred, first_org, study_id)

AccessGetInterview ==
    \E cred \in OwnerTokens :
    \E study_id \in IssuedStudyIds, interview_id \in IssuedInterviewIds,
       first_org \in QueriedOrganization(cred) :
        get_interview(cred, first_org, study_id, interview_id)

NextAccess ==
    \/ CreateOrganizations
    \/ AccessCreateStudy
    \/ AccessGetStudy
    \/ AccessUpdateStudy
    \/ AccessDeleteStudy
    \/ AccessUpsertStudyGuide
    \/ AccessGetStudyGuide
    \/ AccessGenerateInterviewLink
    \/ AccessListInterviews
    \/ AccessGetInterview

SpecAccess == Init /\ [][NextAccess]_vars

\* ------------------------------------------------------------------------
\* SpecUpload: concurrent uploads for the first interview or an interview
\* that does not exist.  Each worker serves one POST /recordings:upload at a
\* time, and the workers' database and object-store calls interleave.
\* ------------------------------------------------------------------------
\* Requests received so far: the answered ones and those in flight
Requests == BagCardinality(log) + Cardinality({w \in Workers : workers[w] # Idle})

GenerateFirstStudyLink ==
    \E first_org \in QueriedOrganization(OrgToken("u1")) :
        /\ generate_interview_link(OrgToken("u1"), first_org, 1)
        /\ Len(interviews') <= MaxInterviews

UploadBegin ==
    \E w \in Workers, interview_id \in ArtifactInterviewIds, upload \in Uploads :
        /\ Requests < MaxRequests
        /\ upload_recording_begin(w, interview_id, upload)

UploadStore ==
    \E w \in Workers, store_ok \in BOOLEAN : upload_recording_store(w, store_ok)

UploadCommit ==
    \E w \in Workers : upload_recording_commit(w)

NextUpload ==
    \/ CreateOrganization
    \/ CreateStudy
    \/ GenerateFirstStudyLink
    \/ UploadBegin
    \/ UploadStore
    \/ UploadCommit

SpecUpload == Init /\ [][NextUpload]_vars

\* ------------------------------------------------------------------------
\* SpecFinalize: concurrent transcript finalizations for the first interview
\* or an interview that does not exist, with interviews being completed in
\* between.
\* ------------------------------------------------------------------------
FinalizeBegin ==
    \E w \in Workers, interview_id \in ArtifactInterviewIds,
       request \in TranscriptRequests :
        /\ Requests < MaxRequests
        /\ finalize_transcript_begin(w, interview_id, request)

FinalizeCommit ==
    \E w \in Workers : finalize_transcript_commit(w)

NextFinalize ==
    \/ CreateOrganization
    \/ CreateStudy
    \/ GenerateFirstStudyLink
    \/ CompleteInterviewOps
    \/ FinalizeBegin
    \/ FinalizeCommit

SpecFinalize == Init /\ [][NextFinalize]_vars

\* ------------------------------------------------------------------------
\* SpecGuide: the owner's requests to replace the guide of a study are
\* served side by side.
\* ------------------------------------------------------------------------
NextGuide ==
    \/ CreateOrganization
    \/ CreateStudy
    \/ \E w \in Workers, study_id \in EditedStudyIds, content_md \in GuideContents :
           \E first_org \in QueriedOrganization(OrgToken("u1")) :
               /\ Requests < MaxRequests
               /\ upsert_study_guide_begin(w, OrgToken("u1"), first_org, study_id,
                                           content_md)
    \/ \E w \in Workers : upsert_study_guide_commit(w)

SpecGuide == Init /\ [][NextGuide]_vars

\* ------------------------------------------------------------------------
\* SpecRace: concurrent requests on one interview.  Two workers redeem the
\* link of the first study with the same pid, and claim (as p1 and as p2)
\* and complete (with two different bodies) the first interview, each
\* request in two steps that interleave with the steps of the other.
\* ------------------------------------------------------------------------
NextRace ==
    \/ CreateOrganization
    \/ CreateStudy
    \/ \E w \in Workers :
           /\ Requests < MaxRequests
           /\ Len(interviews) + Cardinality({v \in Workers :
                  workers[v].pc = "start_checked"}) < MaxInterviews
           /\ start_interview_begin(w, 1, "prolific_abc123")
    \/ \E w \in Workers : start_interview_commit(w)
    \/ \E w \in Workers, u \in IntervieweeUids :
           /\ Requests < MaxRequests
           /\ claim_interview_begin(w, IntervieweeToken(u), <<"uuid", 1>>)
    \/ \E w \in Workers : claim_interview_commit(w)
    \/ \E w \in Workers, completion_data \in CompletionData :
           /\ Requests < MaxRequests
           /\ complete_interview_begin(w, <<"uuid", 1>>, completion_data)
    \/ \E w \in Workers : complete_interview_commit(w)

SpecRace == Init /\ [][NextRace]_vars

\* ------------------------------------------------------------------------
\* SpecAdmin: the super admin at work.  Organizations are provisioned, and
\* the owner step of a provisioning may fail; owners create studies; the
\* super admin calls the organization-scoped endpoints, each time with the
\* organization that db.query(Organization).first() returns, and deletes
\* organizations; organizations are listed and read with every credential.
\* ------------------------------------------------------------------------
ProvisionOrganization ==
    \E owner \in Owners : \E owner_uid \in {owner[2], NULL} :
        /\ create_organization(SuperAdmin, owner[1], owner_uid)
        /\ Len(organizations') <= MaxOrgs

AdminCreateStudy ==
    \E first_org \in FirstOrganization, study_data \in StudyCreates :
        /\ create_study(SuperAdmin, first_org, study_data)
        /\ study_seq' <= MaxStudies

AdminGetStudy ==
    \E first_org \in FirstOrganization, study_id \in IssuedStudyIds :
        get_study(SuperAdmin, first_org, study_id)

AdminUpsertStudyGuide ==
    \E first_org \in FirstOrganization, study_id \in IssuedStudyIds :
        upsert_study_guide(SuperAdmin, first_org, study_id, "G1")

AdminGetStudyGuide ==
    \E first_org \in FirstOrganization, study_id \in IssuedStudyIds :
        get_study_guide(SuperAdmin, first_org, study_id)

AdminGenerateInterviewLink ==
    \E first_org \in FirstOrganization, study_id \in IssuedStudyIds :
        /\ generate_interview_link(SuperAdmin, first_org, study_id)
        /\ Len(interviews') <= MaxInterviews

AdminListInterviews ==
    \E first_org \in FirstOrganization, study_id \in IssuedStudyIds :
        list_interviews(SuperAdmin, first_org, study_id)

AdminGetInterview ==
    \E first_org \in FirstOrganization, study_id \in IssuedStudyIds,
       interview_id \in IssuedInterviewIds :
        get_interview(SuperAdmin, first_org, study_id, interview_id)

NextAdmin ==
    \/ ProvisionOrganization
    \/ AccessCreateStudy
    \/ AdminCreateStudy
    \/ AdminGetStudy
    \/ AdminUpsertStudyGuide
    \/ AdminGetStudyGuide
    \/ AdminGenerateInterviewLink
    \/ AdminListInterviews
    \/ AdminGetInterview
    \/ \E cred \in Credentials : list_organizations(cred)
    \/ \E cred \in Credentials, org_id \in 1..(MaxOrgs + 1) :
           get_organization_by_id(cred, org_id)
    \/ \E org_id \in 1..(MaxOrgs + 1) : delete_organization(SuperAdmin, org_id)

SpecAdmin == Init /\ [][NextAdmin]_vars

\* ------------------------------------------------------------------------
\* SpecAuth: the guards.  Every request is sent with every bearer
\* credential: none, a forged token, a token without tenant claim, the
\* super admin, the organization users u1 (owner of the first organization)
\* and u2 (added to an organization as admin or member, or not at all) and
\* the interviewees.
\* ------------------------------------------------------------------------
UserRoles == {"owner", "admin", "member"}

AuthCreateOrganization ==
    \E cred \in Credentials, name \in OrgNames :
        /\ create_organization(cred, name, "u1")
        /\ Len(organizations') <= MaxOrgs

AuthCreateOrganizationUser ==
    \E cred \in Credentials, org_id \in 1..MaxOrgs, role \in UserRoles :
        create_organization_user(cred, org_id, role, "u2")

AuthListOrganizationUsers ==
    \E cred \in Credentials : \E first_org \in QueriedOrganization(cred) :
        list_organization_users(cred, first_org)

AuthCreateStudy ==
    \E cred \in Credentials : \E first_org \in QueriedOrganization(cred) :
        \E study_data \in StudyCreates :
            /\ create_study(cred, first_org, study_data)
            /\ study_seq' <= MaxStudies

AuthClaimInterview ==
    \E cred \in Credentials, access_token \in Tokens :
        /\ InterviewByToken(access_token) \subseteq {1}
        /\ claim_interview(cred, access_token)

NextAuth ==
    \/ AuthCreateOrganization
    \/ AuthCreateOrganizationUser
    \/ AuthListOrganizationUsers
    \/ AuthCreateStudy
    \/ GenerateFirstStudyLink
    \/ AuthClaimInterview

SpecAuth == Init /\ [][NextAuth]_vars

\* ------------------------------------------------------------------------
\* Properties
\* ------------------------------------------------------------------------
Completed(i) == interviews[i].status = "completed"

CompletionFields(row) ==
    <<row.completed_at, row.transcript_url, row.recording_url, row.notes>>

\* C1: a CompleteInterview call on an interview that an earlier call has
\* completed answers 400 "Interview already completed", and completed_at,
\* transcript_url, recording_url and notes keep the values of the first call
\* in every later step.
C1_Step ==
    \A i \in DOMAIN interviews :
        Completed(i) =>
            /\ i \in DOMAIN interviews'
            /\ CompletionFields(interviews'[i]) = CompletionFields(interviews[i])
            /\ \A completion_data \in CompletionData :
                   complete_interview(interviews[i].access_token, completion_data)
                       => /\ resp'.status = 400
                          /\ resp'.detail = "Interview already completed"
                          /\ interviews' = interviews
C1_SecondCompletionRejected == [][C1_Step]_vars

\* A second completion was rejected at a later time than the first one
C1_Witness ==
    /\ resp.op = "complete_interview"
    /\ resp.status = 400
    /\ \E i \in DOMAIN interviews : Completed(i) /\ interviews[i].completed_at < now

\* C2: every interview starts pending, the only status change is pending to
\* completed, a completed interview stays completed through every
\* operation, and completed_at is null exactly while the status is pending.
C2_Shape(row) ==
    /\ row.status \in {"pending", "completed"}
    /\ (row.completed_at = NULL_TS) <=> (row.status = "pending")

C2_Step ==
    /\ DOMAIN interviews \subseteq DOMAIN interviews'
    /\ \A i \in DOMAIN interviews' :
           /\ C2_Shape(interviews'[i])
           /\ IF i \in DOMAIN interviews
              THEN Completed(i) => interviews'[i].status = "completed"
              ELSE interviews'[i].status = "pending"
C2_StatusMonotonic == [][C2_Step]_vars

\* A completed and claimed interview that has a recording and, with the
\* last request, a transcript
C2_Witness ==
    /\ resp.op = "finalize_transcript"
    /\ resp.status = 201
    /\ \E i \in DOMAIN interviews :
           /\ Completed(i)
           /\ interviews[i].interviewee_firebase_uid # NULL
           /\ \E r \in recordings : r.interview_id = i
           /\ \E t \in transcripts : t.interview_id = i

\* C3: ClaimInterview by an interviewee on an interview that is already
\* claimed answers 400 "Interview already claimed" and keeps the stored uid;
\* on an unclaimed interview it stores the caller's uid.
C3_Step ==
    \A u \in IntervieweeUids, i \in DOMAIN interviews :
        claim_interview(IntervieweeToken(u), interviews[i].access_token) =>
            IF interviews[i].interviewee_firebase_uid # NULL
            THEN /\ resp'.status = 400
                 /\ resp'.detail = "Interview already claimed"
                 /\ interviews' = interviews
            ELSE /\ resp'.status = 200
                 /\ interviews'[i].interviewee_firebase_uid = u
C3_ClaimOnce == [][C3_Step]_vars

C3_Witness ==
    /\ resp.op = "claim_interview"
    /\ resp.status = 400
    /\ resp.detail = "Interview already claimed"
    /\ \E i \in DOMAIN interviews : interviews[i].interviewee_firebase_uid \in IntervieweeUids

\* C4: while the interview of (study, pid) is pending, redeeming the
\* reusable link with that pid redirects to that interview's access_token
\* and adds no interview.
PidInterviews(study_id, pid) ==
    {i \in DOMAIN interviews : /\ interviews[i].study_id = study_id
                               /\ interviews[i].external_participant_id = pid}

C4_Step ==
    \A study \in studies, pid \in Pids \ {NULL} :
        (start_interview(study.id, pid)
            /\ \E i \in PidInterviews(study.id, pid) : ~Completed(i))
        => /\ resp'.status = 302
           /\ \A i \in PidInterviews(study.id, pid) :
                  resp'.body.access_token = interviews[i].access_token
           /\ interviews' = interviews
C4_RedeemIdempotent == [][C4_Step]_vars

\* A redemption answered with the token of an interview that is not the
\* newest one: the link was redeemed again for its pid
C4_Witness ==
    \E i, j \in DOMAIN interviews :
        /\ i < j
        /\ interviews[i].external_participant_id # NULL
        /\ ~Completed(i)
        /\ resp.op = "start_interview"
        /\ resp.status = 302
        /\ resp.body.access_token = interviews[i].access_token

\* C5: when a user of one organization calls an organization-scoped study,
\* guide or interview endpoint with a study of another organization, or with
\* an interview of another organization's study, the answer is the 404 that
\* an id nobody has gets, it has no body, and no row changes.
C5_Foreign(u, study_id) ==
    \E usr \in users, s \in studies :
        /\ usr.firebase_uid = u
        /\ s.id = study_id
        /\ s.organization_id # usr.organization_id

C5_Absent(u, study_id) ==
    /\ \E usr \in users : usr.firebase_uid = u
    /\ \A s \in studies : s.id # study_id

C5_Hidden(op, detail) ==
    /\ resp' = Response(op, 404, detail, NoBody)
    /\ UNCHANGED <<db, objects>>

C5_Ops ==
    {"get_study", "update_study", "delete_study", "get_study_guide",
     "upsert_study_guide", "generate_interview_link", "list_interviews",
     "get_interview"}

\* A request to the endpoint op with these credentials for this study
C5_Request(op, cred, first_org, study_id) ==
    CASE op = "get_study" -> get_study(cred, first_org, study_id)
      [] op = "update_study" ->
            \E study_update \in StudyUpdates :
                update_study(cred, first_org, study_id, study_update)
      [] op = "delete_study" -> delete_study(cred, first_org, study_id)
      [] op = "get_study_guide" -> get_study_guide(cred, first_org, study_id)
      [] op = "upsert_study_guide" ->
            \E content_md \in GuideContents :
                upsert_study_guide(cred, first_org, study_id, content_md)
      [] op = "generate_interview_link" ->
            generate_interview_link(cred, first_org, study_id)
      [] op = "list_interviews" -> list_interviews(cred, first_org, study_id)
      [] op = "get_interview" ->
            \E interview_id \in InterviewIds :
                get_interview(cred, first_org, study_id, interview_id)

\* The requests of a user that name a study the user's organization does
\* not own, or one that does not exist
C5_StudyRequests ==
    \A op \in C5_Ops :
        resp'.op = op =>
            \A u \in OrgUids, study_id \in StudyIds :
                (C5_Foreign(u, study_id) \/ C5_Absent(u, study_id)) =>
                    \A first_org \in QueriedOrganization(OrgToken(u)) :
                        C5_Request(op, OrgToken(u), first_org, study_id)
                            => C5_Hidden(op, "Study not found")

\* The requests of a user for an interview under a study of the user's own
\* organization, where the interview belongs to a study of another
\* organization or does not exist
C5_InterviewRequests ==
    resp'.op = "get_interview" =>
        \A u \in OrgUids, study_id \in StudyIds, interview_id \in InterviewIds :
            (/\ ~C5_Foreign(u, study_id) /\ ~C5_Absent(u, study_id)
             /\ \/ /\ interview_id \notin DOMAIN interviews
                   /\ \E usr \in users : usr.firebase_uid = u
                \/ /\ interview_id \in DOMAIN interviews
                   /\ C5_Foreign(u, interviews[interview_id].study_id)) =>
                \A first_org \in QueriedOrganization(OrgToken(u)) :
                    get_interview(OrgToken(u), first_org, study_id, interview_id)
                        => C5_Hidden("get_interview", "Interview not found")

C5_Step == C5_StudyRequests /\ C5_InterviewRequests
Answered(op, interview_id, status) ==
    CopiesIn([op |-> op, interview_id |-> interview_id, status |-> status], log)

C6_OneRecording ==
    \A i \in InterviewIds :
        /\ Answered("upload_recording", i, 201) <= 1
        /\ Cardinality({r \in recordings : r.interview_id = i}) <= 1

\* Two uploads for one interview ran side by side: the recording row is the
\* one of the 3-byte upload, the stored object is the one the 5-byte upload
\* wrote over it, and that upload was answered 500 when its row was refused
C6_Witness ==
    /\ \A w \in Workers : workers[w] = Idle
    /\ \E i \in DOMAIN interviews :
           /\ Answered("upload_recording", i, 201) > 0
           /\ Answered("upload_recording", i, 500) > 0
           /\ \E r \in recordings, o \in objects :
                  /\ r.interview_id = i
                  /\ o.object_name = r.uri.object_name
                  /\ o.length # r.file_size_bytes

\* C7: however finalizations for one interview interleave, at most one is
\* answered 201, the interview has at most one Transcript row, and a
\* Transcript row, with its full_text and segments, is never changed or
\* removed by a later step.
C7_Step ==
    /\ \A i \in InterviewIds :
           /\ Answered("finalize_transcript", i, 201)' <= 1
           /\ Cardinality({t \in transcripts' : t.interview_id = i}) <= 1
    /\ \A t \in transcripts : t \in transcripts'
C7_OneTranscript == [][C7_Step]_vars

\* Two finalizations for one interview ran side by side: one was answered
\* 201, the other passed the existence check too and was answered 500 when
\* its row was refused; the interview is completed
C7_Witness ==
    /\ \A w \in Workers : workers[w] = Idle
    /\ \E i \in DOMAIN interviews :
           /\ Answered("finalize_transcript", i, 201) > 0
           /\ Answered("finalize_transcript", i, 500) > 0
           /\ \E t \in transcripts : t.interview_id = i /\ Len(t.full_text) > 1
           /\ Completed(i)
           /\ resp.op = "complete_interview"

\* C8: GET /interview/{token} answers 410 "Interview already completed" for
\* the token of a completed interview and 404 for a token no interview has.
C8_Step ==
    \A access_token \in Tokens :
        get_interview_public(access_token) =>
            IF InterviewByToken(access_token) = {}
            THEN resp'.status = 404
            ELSE (\E i \in InterviewByToken(access_token) : Completed(i))
                     => /\ resp'.status = 410
                        /\ resp'.detail = "Interview already completed"
C8_CompletedIsGone == [][C8_Step]_vars

\* C9: GET /interview/{token} for the token of an interview that is pending
\* and not expired answers 200 with status pending, that interview's
\* access_token, the title of its study and the study's guide, or the
\* placeholder when the study has no guide, whatever happened before.
C9_Step ==
    \A i \in DOMAIN interviews :
        (get_interview_public(interviews[i].access_token)
            /\ ~Completed(i) /\ ~(interviews[i].expires_at # NULL_TS
                                   /\ interviews[i].expires_at < now))
        => /\ resp'.status = 200
           /\ resp'.body.interview.status = "pending"
           /\ resp'.body.interview.access_token = interviews[i].access_token
           /\ \E s \in studies :
                  /\ s.id = interviews[i].study_id
                  /\ resp'.body.study.title = s.title
           /\ IF \E g \in guides : g.study_id = interviews[i].study_id
              THEN \E g \in guides :
                      /\ g.study_id = interviews[i].study_id
                      /\ resp'.body.study.interview_guide.content_md = g.content_md
              ELSE resp'.body.study.interview_guide.content_md = "No guide available"
C9_PendingIsServed == [][C9_Step]_vars

\* A pending interview that is claimed and has a recording is served, with
\* the new title and the guide of its study, while another interview is
\* completed
C9_Witness ==
    /\ resp.op = "get_interview_public"
    /\ resp.status = 200
    /\ resp.body.study.title = "T2"
    /\ resp.body.study.interview_guide.content_md = "G1"
    /\ \E i, j \in DOMAIN interviews :
           /\ i # j
           /\ resp.body.interview.access_token = interviews[i].access_token
           /\ ~Completed(i)
           /\ interviews[i].interviewee_firebase_uid # NULL
           /\ \E r \in recordings : r.interview_id = i
           /\ Completed(j)

\* C10: GET /interview/{token} checks not-found, then completed, then
\* expired: a pending interview whose expires_at is in the past answers 410,
\* a completed and expired one answers the completed outcome.
Expired(i) == interviews[i].expires_at # NULL_TS /\ interviews[i].expires_at < now

C10_Step ==
    \A i \in DOMAIN interviews :
        (get_interview_public(interviews[i].access_token) /\ Expired(i))
            => /\ resp'.status = 410
               /\ Completed(i) => resp'.detail = "Interview already completed"
C10_ExpiredIsGone == [][C10_Step]_vars

\* C11: redeeming the reusable link with a pid whose interview of that study
\* is completed answers the "Interview Already Completed" outcome: no
\* redirect, no access_token in the answer, and the interview rows are
\* unchanged.
C11_Step ==
    \A study \in studies, pid \in Pids \ {NULL} :
        (start_interview(study.id, pid)
            /\ \E i \in PidInterviews(study.id, pid) : Completed(i))
        => /\ resp'.status = 400
           /\ resp'.detail = "Interview Already Completed"
           /\ resp'.body = NoBody
           /\ interviews' = interviews
C11_CompletedIsNotRedeemed == [][C11_Step]_vars

\* The link was redeemed for the pid of a completed interview and refused
C11_Witness ==
    /\ resp.op = "start_interview"
    /\ resp.status = 400
    /\ \E i \in DOMAIN interviews :
           /\ Completed(i)
           /\ interviews[i].external_participant_id # NULL
           /\ Len(interviews) = i

\* C12: POST /studies/{study_id}/interviews by a user of an organization
\* answers 201 exactly for a study of that user's organization, and then
\* adds one interview of that study with status pending, no interviewee uid,
\* no completed_at and an access_token no earlier interview has; for a study
\* that does not exist or belongs to another organization it answers 404
\* "Study not found" and adds no interview.
C12_Owns(u, study_id) ==
    \E usr \in users, s \in studies :
        /\ usr.firebase_uid = u
        /\ s.id = study_id
        /\ s.organization_id = usr.organization_id

C12_Created(study_id) ==
    /\ resp'.status = 201
    /\ Len(interviews') = Len(interviews) + 1
    /\ SubSeq(interviews', 1, Len(interviews)) = interviews
    /\ LET row == interviews'[Len(interviews')] IN
           /\ row.study_id = study_id
           /\ row.status = "pending"
           /\ row.interviewee_firebase_uid = NULL
           /\ row.completed_at = NULL_TS
           /\ resp'.body.access_token = row.access_token
           /\ \A i \in DOMAIN interviews : interviews[i].access_token # row.access_token

C12_Step ==
    resp'.op = "generate_interview_link" =>
        \A u \in OrgUids, study_id \in StudyIds :
            (\E usr \in users : usr.firebase_uid = u) =>
                \A first_org \in QueriedOrganization(OrgToken(u)) :
                    generate_interview_link(OrgToken(u), first_org, study_id) =>
                        IF C12_Owns(u, study_id)
                        THEN C12_Created(study_id)
                        ELSE /\ resp' = Response("generate_interview_link", 404,
                                                 "Study not found", NoBody)
                             /\ interviews' = interviews
C12_LinkForOwnStudyOnly == [][C12_Step]_vars

\* With two organizations and a study, a second link was generated: its
\* token had to differ from the first one's
C12_Witness ==
    /\ resp.op = "generate_interview_link"
    /\ resp.status = 201
    /\ Len(organizations) = Cardinality(Owners)
    /\ Len(interviews) > 1
    /\ resp.body.access_token = interviews[Len(interviews)].access_token

\* C13: POST /orgs is atomic with the provisioning of the owner: a request
\* that answers an error leaves no Organization row behind, and every
\* organization has a User row with role owner and its organization_id.
C13_Step ==
    /\ \A owner \in Owners : \A owner_uid \in {owner[2], NULL} :
           (create_organization(SuperAdmin, owner[1], owner_uid) /\ resp'.status >= 400)
               => organizations' = organizations
    /\ \A o \in DOMAIN organizations' :
           \E u \in users' : u.role = "owner" /\ u.organization_id = o
C13_OrganizationHasOwner == [][C13_Step]_vars

\* C14: a request of the super admin for an existing study, its guide or its
\* interviews succeeds whichever organization owns the study and however
\* many organizations exist, and the answer is the one of the owning
\* organization's study.
C14_Step ==
    \A s \in studies, first_org \in FirstOrganization :
        /\ get_study(SuperAdmin, first_org, s.id)
               => resp'.status = 200 /\ resp'.body.org_id = s.organization_id
        /\ get_study_guide(SuperAdmin, first_org, s.id) /\ (\E g \in guides : g.study_id = s.id)
               => resp'.status = 200
        /\ upsert_study_guide(SuperAdmin, first_org, s.id, "G1") => resp'.status = 200
        /\ generate_interview_link(SuperAdmin, first_org, s.id) => resp'.status = 201
        /\ list_interviews(SuperAdmin, first_org, s.id) => resp'.status = 200
        /\ \A i \in DOMAIN interviews :
               (get_interview(SuperAdmin, first_org, s.id, i) /\ interviews[i].study_id = s.id)
                   => resp'.status = 200
C14_SuperAdminSeesEveryStudy == [][C14_Step]_vars

\* C15: a request without bearer credential, with a token that fails
\* verification or with a verified token without tenant claim gets no
\* AuthUser: every endpoint behind a guard answers it 401 without a body and
\* changes nothing.
C15_Unauthenticated == {Anonymous, BadToken, NoTenantToken}

C15_Rejected ==
    /\ resp'.status = 401
    /\ resp'.body = NoBody
    /\ UNCHANGED <<db, objects>>

C15_Step ==
    \A cred \in C15_Unauthenticated :
        /\ resp'.op = "create_organization" =>
               \A name \in OrgNames : create_organization(cred, name, "u1") => C15_Rejected
        /\ resp'.op = "create_organization_user" =>
               \A org_id \in 1..MaxOrgs, role \in UserRoles :
                   create_organization_user(cred, org_id, role, "u2") => C15_Rejected
        /\ resp'.op = "list_organization_users" =>
               \A first_org \in QueriedOrganization(cred) :
                   list_organization_users(cred, first_org) => C15_Rejected
        /\ resp'.op = "create_study" =>
               \A first_org \in QueriedOrganization(cred), study_data \in StudyCreates :
                   create_study(cred, first_org, study_data) => C15_Rejected
        /\ resp'.op = "claim_interview" =>
               \A access_token \in Tokens :
                   claim_interview(cred, access_token) => C15_Rejected
C15_NoTenantNoAccess == [][C15_Step]_vars

\* A token without tenant claim tried to claim an interview that exists and
\* stays unclaimed
C15_Witness ==
    /\ resp = Response("claim_interview", 401, "Invalid tenant", NoBody)
    /\ Len(interviews) > 0
    /\ \A i \in DOMAIN interviews : interviews[i].interviewee_firebase_uid = NULL

\* C16: a guard passes exactly when its condition holds and answers 403
\* otherwise: require_super_admin iff the caller is the super admin,
\* require_organization_user iff the tenant is organization,
\* require_interviewee_user iff the tenant is interviewee, and
\* require_owner_or_admin iff the resolved role is owner or admin or the
\* caller is the super admin, so that a member gets 403 "Owner or admin role
\* required".
C16_Forbidden(op, detail) == resp' = Response(op, 403, detail, NoBody)

C16_Step ==
    \A cred \in Credentials :
        get_current_user(cred).ok =>
            LET user == get_current_user(cred).value IN
            /\ resp'.op = "create_organization" => \A name \in OrgNames :
                   create_organization(cred, name, "u1") =>
                       IF user.is_super_admin
                       THEN resp'.status # 403
                       ELSE C16_Forbidden("create_organization",
                                          "Super admin access required")
            /\ resp'.op = "create_study" =>
                 \A first_org \in QueriedOrganization(cred), study_data \in StudyCreates :
                   create_study(cred, first_org, study_data) =>
                       IF user.tenant_type = "organization"
                       THEN resp'.detail # "Organization user access required"
                       ELSE C16_Forbidden("create_study",
                                          "Organization user access required")
            /\ resp'.op = "claim_interview" => \A access_token \in Tokens :
                   claim_interview(cred, access_token) =>
                       IF user.tenant_type = "interviewee"
                       THEN resp'.status # 403
                       ELSE C16_Forbidden("claim_interview",
                                          "Interviewee user access required")
            /\ resp'.op = "list_organization_users" =>
                 \A first_org \in QueriedOrganization(cred) :
                   LET org_user == get_org_user(cred, first_org) IN
                   (org_user.ok /\ list_organization_users(cred, first_org)) =>
                       IF org_user.value.role \in {"owner", "admin"} \/ user.is_super_admin
                       THEN resp'.status = 200
                       ELSE C16_Forbidden("list_organization_users",
                                          "Owner or admin role required")
C16_GuardsAreExact == [][C16_Step]_vars

\* A member asked for the users of the organization and was refused
C16_Witness ==
    /\ resp = Response("list_organization_users", 403, "Owner or admin role required",
                       NoBody)
    /\ \E u \in users : u.role = "member"

\* C17: for an organization user who is not the super admin, the resolved
\* context is the role and the organization of the User row with the
\* caller's uid, and without such a row the request answers 403 "User not
\* associated with any organization" and changes nothing.
C17_NoContext(op) ==
    /\ resp' = Response(op, 403, "User not associated with any organization", NoBody)
    /\ UNCHANGED <<db, objects>>

C17_Step ==
    \A u \in OrgUids : \A first_org \in QueriedOrganization(OrgToken(u)) :
        LET rows == {usr \in users : usr.firebase_uid = u} IN
        /\ resp'.op = "create_study" => \A study_data \in StudyCreates :
               create_study(OrgToken(u), first_org, study_data) =>
                   IF rows = {} THEN C17_NoContext("create_study")
                   ELSE /\ resp'.status = 201
                        /\ \A usr \in rows : resp'.body.org_id = usr.organization_id
        /\ (resp'.op = "list_organization_users"
               /\ list_organization_users(OrgToken(u), first_org)) =>
               IF rows = {} THEN C17_NoContext("list_organization_users")
               ELSE \A usr \in rows :
                        IF usr.role = "member"
                        THEN resp'.status = 403
                        ELSE /\ resp'.status = 200
                             /\ resp'.body.items =
                                    {UserResponse(x) : x \in
                                        {y \in users :
                                            y.organization_id = usr.organization_id}}
C18_Rejection(interview_id, upload) ==
    IF interview_id \notin DOMAIN interviews
    THEN <<404, "Interview not found">>
    ELSE IF \E r \in recordings : r.interview_id = interview_id
    THEN <<400, "Recording already exists for this interview">>
    ELSE IF upload.mime \in {"text/plain"}
            \/ (upload.mime = NULL /\ upload.content_type \in {"text/plain"})
    THEN <<400, "File must be an audio file">>
    ELSE <<0, NULL>>

C18_Step ==
    /\ \A w \in Workers, interview_id \in InterviewIds, upload \in Uploads :
           upload_recording_begin(w, interview_id, upload) =>
               LET rejection == C18_Rejection(interview_id, upload) IN
               IF rejection[1] # 0
               THEN /\ resp' = Response("upload_recording", rejection[1], rejection[2],
                                        NoBody)
                    /\ workers' = workers
                    /\ UNCHANGED <<db, objects>>
               ELSE workers'[w] # Idle
    /\ \A interview_id \in InterviewIds, status \in {400, 404} :
           Answered("upload_recording", interview_id, status)'
               > Answered("upload_recording", interview_id, status)
           => UNCHANGED <<db, objects>>
C19_Step ==
    /\ \A w \in Workers :
           upload_recording_store(w, FALSE) =>
               /\ resp' = Raise("upload_recording", UploadFailed)
               /\ workers'[w] = Idle
               /\ UNCHANGED <<db, objects>>
    /\ \A r \in recordings' :
           \E o \in objects' :
               o.bucket = r.uri.bucket /\ o.object_name = r.uri.object_name
C19_NoRowWithoutObject == [][C19_Step]_vars

\* The store failed for an upload and the next upload for the interview
\* succeeded: one row, one object
C19_Witness ==
    /\ resp.op = "upload_recording"
    /\ resp.status = 201
    /\ \E i \in DOMAIN interviews :
           /\ Answered("upload_recording", i, 500) = 1
           /\ Answered("upload_recording", i, 201) = 1
           /\ Cardinality(recordings) = 1
           /\ Cardinality(objects) = 1

\* C20: a finalization that answers 201 for the segment list s stores a
\* transcript whose full_text is the texts of s in input order with one
\* space between neighbours, and exactly Len(s) segment rows, the i-th
\* segment of s with sequence i counted from 0; an empty segment list
\* answers 400 and stores nothing.
\* The position in full_text before the text of segment k
RECURSIVE C20_Offset(_, _)
C20_Offset(s, k) ==
    IF k = 1 THEN 0 ELSE C20_Offset(s, k - 1) + Len(s[k - 1].text) + 1

C20_IsJoined(full_text, s) ==
    /\ Len(full_text) = C20_Offset(s, Len(s)) + Len(s[Len(s)].text)
    /\ \A k \in DOMAIN s :
           /\ SubSeq(full_text, C20_Offset(s, k) + 1, C20_Offset(s, k) + Len(s[k].text))
                  = s[k].text
           /\ k > 1 => full_text[C20_Offset(s, k)] = " "

C20_Stored(t, s) ==
    /\ C20_IsJoined(t.full_text, s)
    /\ Cardinality(t.segments) = Len(s)
    /\ \A k \in DOMAIN s :
           \E row \in t.segments :
               /\ row.sequence = k - 1
               /\ row.text = s[k].text
               /\ row.start_ms = s[k].start_ms
               /\ row.end_ms = s[k].end_ms

C20_Step ==
    /\ \A w \in Workers :
           (finalize_transcript_commit(w) /\ resp'.status = 201) =>
               \E t \in transcripts' \ transcripts :
                   /\ t.interview_id = workers[w].interview_id
                   /\ C20_Stored(t, workers[w].request.segments)
                   /\ resp'.body.full_text = t.full_text
    /\ \A w \in Workers, interview_id \in InterviewIds :
           finalize_transcript_begin(w, interview_id,
                                     [lang |-> "en", source |-> "stt", segments |-> <<>>])
           => /\ resp' = Response("finalize_transcript", 400,
                                  "Request must contain at least one segment", NoBody)
              /\ workers' = workers
              /\ UNCHANGED <<db, objects>>
C20_TranscriptIsJoinedInOrder == [][C20_Step]_vars

\* A transcript of two segments was stored: its text is longer than each
\* segment's text and begins with the text of the segment sent first
C20_Witness ==
    /\ resp.op = "finalize_transcript"
    /\ resp.status = 201
    /\ \E t \in transcripts :
           /\ Cardinality(t.segments) = 2
           /\ resp.body.full_text = t.full_text
           /\ \E row \in t.segments :
                  /\ row.sequence = 0
                  /\ row.text = SegB.text
                  /\ SubSeq(t.full_text, 1, Len(row.text)) = row.text
                  /\ Len(t.full_text) > Len(row.text)

\* C21: no two interviews share an access_token in any state, and no
\* operation (claim, completion, upload, finalization, redemption, link
\* generation) changes the access_token of an interview that exists.
C21_Step ==
    /\ \A i, j \in DOMAIN interviews' :
           i # j => interviews'[i].access_token # interviews'[j].access_token
    /\ \A i \in DOMAIN interviews :
           /\ i \in DOMAIN interviews'
           /\ interviews'[i].access_token = interviews[i].access_token
C22_Step ==
    /\ \A s \in studies' :
           Cardinality({g \in guides' : g.study_id = s.id}) <= 1
    /\ \A g \in guides' :
           CopiesIn([op |-> "upsert_study_guide", study_id |-> g.study_id,
                     content_md |-> g.content_md, status |-> 200], log') > 0
    /\ \A w \in Workers :
           (upsert_study_guide_commit(w) /\ resp'.status = 200) =>
               /\ \E g \in guides' :
                      /\ g.study_id = workers[w].study_id
                      /\ g.content_md = workers[w].content_md
                      /\ resp'.body = InterviewGuideResponse(g)
               /\ \A g \in guides : g.study_id # workers[w].study_id => g \in guides'
               /\ Cardinality(guides') =
                      IF \E g \in guides : g.study_id = workers[w].study_id
                      THEN Cardinality(guides) ELSE Cardinality(guides) + 1
C22_GuideUpsert == [][C22_Step]_vars

\* Two PUTs for a study without guide ran side by side: one created the
\* guide, the other was refused when it inserted a second one; a later PUT
\* replaced the content
C22_Witness ==
    /\ \A w \in Workers : workers[w] = Idle
    /\ \E s \in studies :
           /\ \E content_md \in GuideContents :
                  CopiesIn([op |-> "upsert_study_guide", study_id |-> s.id,
                            content_md |-> content_md, status |-> 500], log) > 0
           /\ \A content_md \in GuideContents :
                  CopiesIn([op |-> "upsert_study_guide", study_id |-> s.id,
                            content_md |-> content_md, status |-> 200], log) = 1
           /\ Cardinality({g \in guides : g.study_id = s.id}) = 1

\* C23: the guards run in the order tenant, role, ownership: a caller
\* without valid credentials or of the wrong tenant gets the same answer
\* from an authenticated endpoint whether the organization, study or
\* interview it names exists or not.
C23_Outsiders ==
    C15_Unauthenticated \cup {IntervieweeToken(u) : u \in IntervieweeUids}

C23_Step ==
    /\ \A cred \in C23_Outsiders :
           /\ \A org_id \in DOMAIN organizations :
                  get_organization_by_id(cred, org_id)
                      => get_organization_by_id(cred, Len(organizations) + 1)
           /\ \A first_org \in QueriedOrganization(cred), s \in studies :
                  /\ get_study(cred, first_org, s.id)
                         => get_study(cred, first_org, study_seq + 1)
                  /\ list_interviews(cred, first_org, s.id)
                         => list_interviews(cred, first_org, study_seq + 1)
    /\ \A cred \in C15_Unauthenticated \cup {OrgToken(u) : u \in OrgUids},
          i \in DOMAIN interviews :
           claim_interview(cred, interviews[i].access_token)
               => claim_interview(cred, uuid4)
C23_OutsidersLearnNothing == [][C23_Step]_vars

\* C24: when ClaimInterview requests of different interviewees for the same
\* token run concurrently, interviewee_firebase_uid is set exactly once: no
\* request succeeds on an interview that another interviewee has claimed,
\* and a uid that is stored is never replaced.
C24_Step ==
    /\ \A i \in DOMAIN interviews :
           interviews[i].interviewee_firebase_uid # NULL
               => interviews'[i].interviewee_firebase_uid
                      = interviews[i].interviewee_firebase_uid
    /\ \A w \in Workers :
           claim_interview_commit(w)
               => interviews[workers[w].interview_id].interviewee_firebase_uid
                      \in {NULL, workers[w].firebase_uid}
C24_ClaimedOnceUnderRace == [][C24_Step]_vars

\* C25: when the reusable link of a study is redeemed concurrently with the
\* same pid, the study never has two interviews with that pid, and every
\* redirect carries the access_token of the one interview of the pid.
C25_OneInterviewPerPid ==
    \A s \in studies, pid \in Pids \ {NULL} :
        /\ Cardinality(InterviewByPid(s.id, pid)) <= 1
        /\ (resp.op = "start_interview" /\ resp.status = 302)
               => \A i \in InterviewByPid(s.id, pid) :
                      interviews[i].access_token = resp.body.access_token

\* C26: when CompleteInterview requests for the same token run
\* concurrently, a request succeeds only on an interview that is not yet
\* completed, and the completion fields of a completed interview are never
\* written again.
C26_Step ==
    /\ \A i \in DOMAIN interviews :
           interviews[i].status = "completed"
               => /\ interviews'[i].status = "completed"
                  /\ interviews'[i].completed_at = interviews[i].completed_at
                  /\ interviews'[i].transcript_url = interviews[i].transcript_url
                  /\ interviews'[i].recording_url = interviews[i].recording_url
                  /\ interviews'[i].notes = interviews[i].notes
    /\ \A w \in Workers :
           complete_interview_commit(w)
               => interviews[workers[w].interview_id].status # "completed"
C26_CompletedOnceUnderRace == [][C26_Step]_vars

\* C27: once the concurrent uploads for an interview have all been
\* answered, the object at the uri of the AudioRecording row is the one the
\* request that created the row stored (file_size_bytes and mime_type
\* describe it), and the store holds no object of a request that ended in
\* an error.
C27_ObjectOfRowCreator ==
    (\A w \in Workers : workers[w] = Idle)
        => /\ \A r \in recordings :
                  \E o \in objects :
                      /\ o.bucket = r.uri.bucket
                      /\ o.object_name = r.uri.object_name
                      /\ o.length = r.file_size_bytes
                      /\ o.content_type = r.mime_type
           /\ \A o \in objects :
                  \E r \in recordings :
                      /\ o.bucket = r.uri.bucket
                      /\ o.object_name = r.uri.object_name

\* C28: ClaimInterview changes nothing but interviewee_firebase_uid of the
\* interview of the token and succeeds on an unclaimed interview whatever
\* its status; CompleteInterview changes nothing but status, completed_at,
\* transcript_url, recording_url and notes of the interview of the token and
\* succeeds on a pending interview whether or not it is claimed.  No other
\* interview and no other table changes.
C28_OtherTables ==
    <<organizations, users, studies, study_seq, guides, recordings, transcripts, objects>>

C28_Step ==
    /\ resp'.op = "claim_interview" =>
           \A u \in IntervieweeUids, i \in DOMAIN interviews :
               claim_interview(IntervieweeToken(u), interviews[i].access_token) =>
                   /\ interviews' = [interviews EXCEPT ![i].interviewee_firebase_uid =
                                         interviews'[i].interviewee_firebase_uid]
                   /\ UNCHANGED C28_OtherTables
                   /\ interviews[i].interviewee_firebase_uid = NULL
                          => resp'.status = 200
    /\ resp'.op = "complete_interview" =>
           \A completion_data \in CompletionData, i \in DOMAIN interviews :
               complete_interview(interviews[i].access_token, completion_data) =>
                   /\ interviews' = [interviews EXCEPT
                          ![i].status = interviews'[i].status,
                          ![i].completed_at = interviews'[i].completed_at,
                          ![i].transcript_url = interviews'[i].transcript_url,
                          ![i].recording_url = interviews'[i].recording_url,
                          ![i].notes = interviews'[i].notes]
                   /\ UNCHANGED C28_OtherTables
                   /\ interviews[i].status = "pending" => resp'.status = 200
C28_ClaimAndCompleteFrames == [][C28_Step]_vars

\* A completed interview has just been claimed, next to an interview that
\* is still pending and unclaimed
C28_Witness ==
    /\ resp.op = "claim_interview"
    /\ resp.status = 200
    /\ Len(interviews) = 2
    /\ \E i \in DOMAIN interviews :
           /\ interviews[i].status = "completed"
           /\ interviews[i].interviewee_firebase_uid # NULL
           /\ \A j \in DOMAIN interviews \ {i} :
                  /\ interviews[j].status = "pending"
                  /\ interviews[j].interviewee_firebase_uid = NULL

\* C29: DELETE /orgs/{org_id} keeps the row and sets deleted_at, a second
\* DELETE answers 404, and from then on no endpoint returns the organization
\* or acts in its context: it is not listed, not read by id, and no study is
\* created in it, neither for its members nor for the super admin.
C29_Step ==
    /\ \A org_id \in DOMAIN organizations :
           /\ delete_organization(SuperAdmin, org_id) =>
                  /\ Len(organizations') = Len(organizations)
                  /\ organizations'[org_id].deleted_at # NULL_TS
                  /\ resp'.status = IF ActiveOrganization(org_id) THEN 204 ELSE 404
           /\ \A cred \in Credentials :
                  (get_organization_by_id(cred, org_id) /\ resp'.status = 200)
                      => ActiveOrganization(org_id)
    /\ \A cred \in Credentials :
           (list_organizations(cred) /\ resp'.status = 200)
               => \A o \in resp'.body : ActiveOrganization(o.org_id)
    /\ \A s \in studies' \ studies : ActiveOrganization(s.organization_id)
C30_Step ==
    /\ resp'.op = "upload_recording" =>
           \A interview_id \in ArtifactInterviewIds, upload \in Uploads,
              store_ok \in BOOLEAN :
               upload_recording(interview_id, upload, store_ok)
                   => recordings' = recordings
    /\ resp'.op = "finalize_transcript" =>
           \A interview_id \in ArtifactInterviewIds :
               finalize_transcript(interview_id,
                   [lang |-> "en", source |-> "stt", segments |-> <<SegA, SegB>>])
                   => transcripts' = transcripts
C30_ArtifactNeedsToken == [][C30_Step]_vars

====
